---------------------------- MODULE Spec2Model ----------------------------
(***************************************************************************)
(* CV certificates of STB 34.101.79 (btok_cvc.c): the record validators,   *)
(* the DER body codec, wrap / unwrap / issue, and a driver that calls them *)
(* on bounded inputs.  Buffers are sequences of octets 0..255; a NULL      *)
(* output buffer is the empty sequence.                                    *)
(***************************************************************************)
EXTENDS Integers, Sequences, FiniteSets, TLC

VARIABLES
    cvc,        \* the caller's btok_cvc_t record
    op,         \* the last API call: init, check, check2, dry, wrap, iss,
                \* unwrap, other
    code,       \* err_t returned by the last call
    cert,       \* the caller's output buffer (<<>>: nothing written)
    cert_len,   \* the caller's size_t written through cert_len
    args,       \* the parameters of the last call
    out,        \* the record filled by btokCVCUnwrap
    live,       \* blobs created by the last call and not closed at its return
    heap,       \* "ample": blobCreate never fails; "tight": it may fail
    asserts,    \* whether every ASSERT the last call reached was true
    _count,     \* cmd_main.c: the number of registered commands
    _cmds,      \* cmd_main.c: the name in each of the 32 entries (0: null)
    cmd_op,     \* the last call into cmd_main.c: start, cmdReg, cmdUsage, main
    cmd_arg,    \* the name given to that call (0: none)
    cmd_ret,    \* what the call returned
    cmd_reads   \* the positions pos whose _cmds[pos].name the call read

btokVars == <<cvc, op, code, cert, cert_len, args, out, live, heap, asserts>>

cmdVars == <<_count, _cmds, cmd_op, cmd_arg, cmd_ret, cmd_reads>>

vars == <<btokVars, cmdVars>>

(***************************************************************************)
(* Bounds of the driver                                                    *)
(***************************************************************************)
\* number of distinct octet strings the RNG may deliver (rngStepR)
MaxRnd == 1
\* number of replacement values tried at each octet of a certificate
MaxTamper == 2

(***************************************************************************)
(* Program constants                                                       *)
(***************************************************************************)
SIZE_MAX == -1
PUBKEY_SIZE == 128
SIG_SIZE == 96
DATE_SIZE == 6
HAT_EID_SIZE == 5
HAT_ESIGN_SIZE == 2
NAME_MIN == 8
NAME_MAX == 12
MIN_YEAR == 19

TAG_CVCert == 32545
TAG_CertBody == 32590
TAG_Version == 24361
TAG_Authority == 66
TAG_PubKey == 32585
TAG_Holder == 24352
TAG_CertHAT == 32588
TAG_From == 24357
TAG_Until == 24356
TAG_CVExt == 101
TAG_DDT == 115
TAG_Sig == 24375

oid_bign_pubkey == <<1, 2, 112, 0, 2, 0, 34, 101, 45, 2, 1>>
oid_eid_access == <<1, 2, 112, 0, 2, 0, 34, 101, 79, 6, 1>>
oid_esign_access == <<1, 2, 112, 0, 2, 0, 34, 101, 79, 6, 2>>
oid_belt_hash == <<1, 2, 112, 0, 2, 0, 34, 101, 31, 81>>
oid_bash384 == <<1, 2, 112, 0, 2, 0, 34, 101, 77, 12>>
oid_bash512 == <<1, 2, 112, 0, 2, 0, 34, 101, 77, 13>>

(***************************************************************************)
(* Octet-string helpers                                                    *)
(***************************************************************************)
Zeros(n) == [i \in 1..n |-> 0]

\* memIsZero
memIsZero(buf) == \A i \in 1..Len(buf) : buf[i] = 0

\* the first n octets of a buffer
Head_n(buf, n) == SubSeq(buf, 1, n)

\* octets written at the start of a buffer, the rest of the buffer kept
memCopyTo(buf, val) == val \o SubSeq(buf, Len(val) + 1, Len(buf))

\* val followed by zeros up to n octets
Pad(val, n) == val \o Zeros(n - Len(val))

\* the sum modulo 256 of octets lo..hi of a buffer
RECURSIVE SumRange(_, _, _)
SumRange(buf, lo, hi) ==
    IF lo > hi THEN 0
    ELSE IF lo = hi THEN buf[lo]
    ELSE LET mid == (lo + hi) \div 2
         IN  (SumRange(buf, lo, mid) + SumRange(buf, mid + 1, hi)) % 256

SumOctets(buf) == SumRange(buf, 1, Len(buf))

\* memCmp(left, right, n) <= 0 on two buffers of the same length
RECURSIVE memLeq(_, _)
memLeq(left, right) ==
    IF left = <<>> THEN TRUE
    ELSE IF Head(left) # Head(right) THEN Head(left) < Head(right)
    ELSE memLeq(Tail(left), Tail(right))

(***************************************************************************)
(* DER primitives (bee2/core/der): tags, lengths, TLV                      *)
(***************************************************************************)
\* derTEnc: the octets of a tag given as a number (0x7F4E -> 7F 4E)
RECURSIVE derTEnc(_)
derTEnc(tag) ==
    IF tag < 256 THEN <<tag>>
    ELSE derTEnc(tag \div 256) \o <<tag % 256>>

\* big-endian octets of a positive number
RECURSIVE BigEndian(_)
BigEndian(n) ==
    IF n < 256 THEN <<n>>
    ELSE BigEndian(n \div 256) \o <<n % 256>>

\* derLEnc: definite length, minimal form
derLEnc(len) ==
    IF len < 128 THEN <<len>>
    ELSE <<128 + Len(BigEndian(len))>> \o BigEndian(len)

\* derEnc: the octets of T, L and V
derEnc(tag, val) == derTEnc(tag) \o derLEnc(Len(val)) \o val

\* whether buffer der holds the octets pat at offset ptr (0-based), within
\* count remaining octets
StartsAt(der, ptr, count, pat) ==
    /\ Len(pat) <= count
    /\ ptr + Len(pat) <= Len(der)
    /\ \A i \in 1..Len(pat) : der[ptr + i] = pat[i]

\* derStartsWith
derStartsWith(der, ptr, count, tag) == StartsAt(der, ptr, count, derTEnc(tag))

\* value of n big-endian octets at offset ptr
RECURSIVE BigEndianAt(_, _, _)
BigEndianAt(der, ptr, n) ==
    IF n = 0 THEN 0
    ELSE 256 * BigEndianAt(der, ptr, n - 1) + der[ptr + n]

\* a length of 4 to 8 octets: more than any buffer of the model holds
HugeLen == 2 ^ 24

\* derLDec: [l |-> octets of the length field or SIZE_MAX, len |-> the length]
derLDec(der, ptr, count) ==
    IF count < 1 \/ ptr + 1 > Len(der) THEN [l |-> SIZE_MAX, len |-> 0]
    ELSE LET b == der[ptr + 1]
             n == b - 128
         IN  IF b < 128 THEN [l |-> 1, len |-> b]
             ELSE IF \/ b = 128
                     \/ b = 255
                     \/ n > 8
                     \/ count < 1 + n
                     \/ ptr + 1 + n > Len(der)
                     \/ der[ptr + 2] = 0
                     \/ (n = 1 /\ der[ptr + 2] < 128)
                  THEN [l |-> SIZE_MAX, len |-> 0]
                  ELSE IF n > 3 THEN [l |-> 1 + n, len |-> HugeLen]
                  ELSE [l |-> 1 + n, len |-> BigEndianAt(der, ptr + 1, n)]

\* derDec2: a TLV with the given tag at offset ptr:
\* [t |-> octets consumed or SIZE_MAX, len |-> length of V, val |-> V]
derDec2(der, ptr, count, tag) ==
    LET T == derTEnc(tag)
        bad == [t |-> SIZE_MAX, len |-> 0, val |-> <<>>]
    IN  IF ~StartsAt(der, ptr, count, T) THEN bad
        ELSE LET L == derLDec(der, ptr + Len(T), count - Len(T))
                 h == Len(T) + L.l
             IN  IF L.l = SIZE_MAX THEN bad
                 ELSE IF h + L.len > count \/ ptr + h + L.len > Len(der) THEN bad
                 ELSE [t |-> h + L.len, len |-> L.len,
                       val |-> SubSeq(der, ptr + h + 1, ptr + h + L.len)]

\* derDec3: a TLV with the given tag and exactly len octets of V
derDec3(der, ptr, count, tag, len) ==
    LET d == derDec2(der, ptr, count, tag)
    IN  IF d.t = SIZE_MAX \/ d.len # len THEN [d EXCEPT !.t = SIZE_MAX] ELSE d

\* derDec4: a TLV that must equal the given encoding octet for octet
derDec4(der, ptr, count, enc) ==
    IF StartsAt(der, ptr, count, enc) THEN Len(enc) ELSE SIZE_MAX

\* base-128 octets of an OID arc, all but the last with the high bit set
RECURSIVE Base128(_, _)
Base128(n, last) ==
    LET o == (n % 128) + (IF last THEN 0 ELSE 128)
    IN  IF n < 128 THEN <<o>> ELSE Base128(n \div 128, FALSE) \o <<o>>

RECURSIVE OidArcs(_)
OidArcs(arcs) ==
    IF arcs = <<>> THEN <<>>
    ELSE Base128(Head(arcs), TRUE) \o OidArcs(Tail(arcs))

\* derOIDEnc: OBJECT IDENTIFIER (tag 0x06) of a dotted OID
derOIDEnc(oid) ==
    derEnc(6, Base128(40 * oid[1] + oid[2], TRUE) \o OidArcs(SubSeq(oid, 3, Len(oid))))

\* derOIDDec2: the OID at ptr must be the given one
derOIDDec2(der, ptr, count, oid) == derDec4(der, ptr, count, derOIDEnc(oid))

\* derTSIZEEnc: a size_t as a tagged minimal non-negative integer
derTSIZEEnc(tag, val) ==
    derEnc(tag, IF BigEndian(val)[1] >= 128 THEN <<0>> \o BigEndian(val)
                ELSE BigEndian(val))

\* derTSIZEDec2: the tagged size at ptr must be the given one
derTSIZEDec2(der, ptr, count, tag, val) ==
    derDec4(der, ptr, count, derTSIZEEnc(tag, val))

\* derTPSTREnc: a tagged PrintableString
derTPSTREnc(tag, str) == derEnc(tag, str)

\* a C string held in a char array: the octets before the first NUL
RECURSIVE CStr(_)
CStr(chars) ==
    IF chars = <<>> \/ Head(chars) = 0 THEN <<>>
    ELSE <<Head(chars)>> \o CStr(Tail(chars))

\* derTPSTRDec: [t, len |-> octets of the string, val |-> the string copied]
derTPSTRDec(der, ptr, count, tag) == derDec2(der, ptr, count, tag)

\* derBITEnc: BIT STRING (tag 0x03) of a whole number of octets
derBITEnc(val, bitlen) == derEnc(3, <<0>> \o Head_n(val, bitlen \div 8))

\* derBITDec: [t, len |-> length in bits, val |-> the octets]
derBITDec(der, ptr, count) ==
    LET d == derDec2(der, ptr, count, 3)
        bad == [t |-> SIZE_MAX, len |-> 0, val |-> <<>>]
    IN  IF d.t = SIZE_MAX \/ d.len < 1 THEN bad
        ELSE LET unused == d.val[1]
             IN  IF unused > 7 \/ (d.len = 1 /\ unused # 0) THEN bad
                 ELSE IF unused # 0 /\ (d.val[d.len] % (2 ^ unused)) # 0 THEN bad
                 ELSE [t |-> d.t, len |-> 8 * (d.len - 1) - unused,
                       val |-> Tail(d.val)]

\* derOCTEnc / derTOCTEnc: OCTET STRING (tag 0x04) or a tagged one
derOCTEnc(val) == derEnc(4, val)
derTOCTEnc(tag, val) == derEnc(tag, val)

\* derOCTDec2 / derTOCTDec2: an octet string of exactly len octets
derOCTDec2(der, ptr, count, len) == derDec3(der, ptr, count, 4, len)
derTOCTDec2(der, ptr, count, tag, len) == derDec3(der, ptr, count, tag, len)

(***************************************************************************)
(* Evaluation helper: F applied to the value of v, v evaluated once        *)
(***************************************************************************)
With(v, F(_)) == CHOOSE r \in {F(x) : x \in {v}} : TRUE

(***************************************************************************)
(* DER encoding steps of btok_cvc.c                                        *)
(* An encoder is [real, buf, count, anchors]: real is FALSE for a null     *)
(* output pointer, buf holds the octets written so far, count is the       *)
(* running length, anchors[a] the count at which der_anchor_t a was        *)
(* dropped.  A step is a record: put (a primitive's octets), start and     *)
(* stop (a constructed element).                                           *)
(***************************************************************************)
Anchors == {"CVCert", "CertBody", "PubKey", "CertHAT", "CVExt", "DDT"}

NewEnc(real) ==
    [real |-> real, buf |-> <<>>, count |-> 0, anchors |-> [a \in Anchors |-> 0]]

\* a primitive: the octets it writes and the length t it returns
EncPut(octets) == [op |-> "put", octets |-> octets, t |-> Len(octets)]
EncStart(anchor, tag) == [op |-> "start", anchor |-> anchor, tag |-> tag]
EncStop(anchor, tag) == [op |-> "stop", anchor |-> anchor, tag |-> tag]

\* derEncStep(step, ptr, count): ptr = ptr ? ptr + t : 0, count += t
derEncPut(e, octets, t) ==
    [e EXCEPT !.buf = IF e.real THEN @ \o octets ELSE @,
              !.count = @ + t]

\* derEncStep(derTSEQEncStart(anchor, ptr, count, tag), ptr, count): the
\* tag and a one-octet length 0; the anchor keeps the count before them
derTSEQEncStart(e, anchor, tag) ==
    [derEncPut(e, derTEnc(tag) \o <<0>>, Len(derTEnc(tag)) + 1)
        EXCEPT !.anchors[anchor] = e.count]

\* derEncStep(derTSEQEncStop(ptr, count, anchor), ptr, count): the length
\* field at the anchor gets its final octets, the contents move up, and
\* the step is the growth of the length field
derTSEQEncStop(e, anchor, tag) ==
    LET pos == e.anchors[anchor]
        t_count == Len(derTEnc(tag))
        len == e.count - pos - t_count - 1
        L == derLEnc(len)
    IN  [e EXCEPT !.buf = IF e.real
                          THEN SubSeq(@, 1, pos + t_count) \o L
                               \o SubSeq(@, pos + t_count + 2, Len(@))
                          ELSE @,
                  !.count = @ + (Len(L) - 1)]

derEncStep(e, step) ==
    IF step.op = "put" THEN derEncPut(e, step.octets, step.t)
    ELSE IF step.op = "start" THEN derTSEQEncStart(e, step.anchor, step.tag)
    ELSE derTSEQEncStop(e, step.anchor, step.tag)

\* the steps lo..hi of a sequence of steps, applied in order
RECURSIVE derEncSteps(_, _, _, _)
derEncSteps(e0, steps, lo, hi) ==
    With(e0, LAMBDA e :
        IF lo > hi THEN e
        ELSE IF lo = hi THEN derEncStep(e, steps[lo])
        ELSE derEncSteps(derEncSteps(e, steps, lo, (lo + hi) \div 2),
                         steps, (lo + hi) \div 2 + 1, hi))

(***************************************************************************)
(* DER decoding steps of btok_cvc.c                                        *)
(* A decoder is [ok, ptr, count, anchors, cvc]: ptr is the offset of the   *)
(* next octet of the buffer, count the octets left, ok is FALSE once a     *)
(* step returned SIZE_MAX, anchors[a] the offset and the length decoded    *)
(* when der_anchor_t a was dropped, cvc the record being filled.           *)
(***************************************************************************)
\* derDecStep(step, ptr, count)
derDecStep(d, t) ==
    IF ~d.ok \/ t = SIZE_MAX THEN [d EXCEPT !.ok = FALSE]
    ELSE [d EXCEPT !.ptr = @ + t, !.count = @ - t]

\* derTSEQDecStart: [t |-> octets of T and L or SIZE_MAX, len |-> contents]
derTSEQDecStart(der, ptr, count, tag) ==
    LET T == derTEnc(tag)
    IN  IF ~StartsAt(der, ptr, count, T) THEN [t |-> SIZE_MAX, len |-> 0]
        ELSE With(derLDec(der, ptr + Len(T), count - Len(T)), LAMBDA L :
                 IF L.l = SIZE_MAX THEN [t |-> SIZE_MAX, len |-> 0]
                 ELSE [t |-> Len(T) + L.l, len |-> L.len])

\* derTSEQDecStop: 0 when ptr is exactly the end of the element that
\* started at offset anchor with the given tag and length
derTSEQDecStop(ptr, anchor, tag, len) ==
    IF ptr = anchor + Len(derTEnc(tag)) + Len(derLEnc(len)) + len THEN 0
    ELSE SIZE_MAX

DecStart(anchor, tag) == [op |-> "start", anchor |-> anchor, tag |-> tag]
DecStop(anchor, tag) == [op |-> "stop", anchor |-> anchor, tag |-> tag]
DecSize(tag, val) == [op |-> "size", tag |-> tag, val |-> val]
DecOid(oid) == [op |-> "oid", oid |-> oid]
DecName(field, tag) == [op |-> "name", field |-> field, tag |-> tag]
DecPubkey == [op |-> "pubkey"]
DecOct(field, tag, len) == [op |-> "oct", field |-> field, tag |-> tag, len |-> len]
DecOptional(tag, steps) == [op |-> "optional", tag |-> tag, steps |-> steps]

\* derDecStep(derTSEQDecStart(anchor, ptr, count, tag), ptr, count)
DecStepStart(d, der, step) ==
    With(derTSEQDecStart(der, d.ptr, d.count, step.tag), LAMBDA s :
        [derDecStep(d, s.t) EXCEPT
            !.anchors[step.anchor] = [ptr |-> d.ptr, len |-> s.len]])

\* derDecStep(derTSEQDecStop(ptr, anchor), ptr, count)
DecStepStop(d, der, step) ==
    derDecStep(d, derTSEQDecStop(d.ptr, d.anchors[step.anchor].ptr, step.tag,
                                 d.anchors[step.anchor].len))

\* a name: derTPSTRDec for the length, which must be in 8..12, then
\* derTPSTRDec into the char array
DecStepName(d, der, step) ==
    With(derTPSTRDec(der, d.ptr, d.count, step.tag), LAMBDA s :
        IF s.t = SIZE_MAX \/ s.len < NAME_MIN \/ s.len > NAME_MAX
        THEN [d EXCEPT !.ok = FALSE]
        ELSE [derDecStep(d, s.t) EXCEPT !.cvc[step.field] = CStr(s.val)])

\* the key: derBITDec for the length, which must be 512, 768 or 1024
\* bits, then pubkey_len, then derBITDec into the key buffer
DecStepPubkey(d, der, step) ==
    With(derBITDec(der, d.ptr, d.count), LAMBDA s :
        IF s.t = SIZE_MAX \/ (s.len # 512 /\ s.len # 768 /\ s.len # 1024)
        THEN [d EXCEPT !.ok = FALSE]
        ELSE [derDecStep(d, s.t) EXCEPT
                 !.cvc.pubkey_len = s.len \div 8,
                 !.cvc.pubkey = memCopyTo(@, s.val)])

\* derOCTDec2 / derTOCTDec2 into a field of the record
DecStepOct(d, der, step) ==
    With(derTOCTDec2(der, d.ptr, d.count, step.tag, step.len), LAMBDA s :
        IF s.t = SIZE_MAX THEN [d EXCEPT !.ok = FALSE]
        ELSE [derDecStep(d, s.t) EXCEPT !.cvc[step.field] = s.val])

RECURSIVE derDecSteps(_, _, _, _, _)

\* one step; the steps of an optional block run when the tag is next
derDecStep1(d, der, step) ==
    IF ~d.ok THEN d
    ELSE IF step.op = "start" THEN DecStepStart(d, der, step)
    ELSE IF step.op = "stop" THEN DecStepStop(d, der, step)
    ELSE IF step.op = "size"
    THEN derDecStep(d, derTSIZEDec2(der, d.ptr, d.count, step.tag, step.val))
    ELSE IF step.op = "oid"
    THEN derDecStep(d, derOIDDec2(der, d.ptr, d.count, step.oid))
    ELSE IF step.op = "name" THEN DecStepName(d, der, step)
    ELSE IF step.op = "pubkey" THEN DecStepPubkey(d, der, step)
    ELSE IF step.op = "oct" THEN DecStepOct(d, der, step)
    ELSE IF derStartsWith(der, d.ptr, d.count, step.tag)
    THEN derDecSteps(d, der, step.steps, 1, Len(step.steps))
    ELSE d

\* the steps lo..hi of a sequence of steps, applied in order
derDecSteps(d0, der, steps, lo, hi) ==
    With(d0, LAMBDA d :
        IF lo > hi THEN d
        ELSE IF lo = hi THEN derDecStep1(d, der, steps[lo])
        ELSE derDecSteps(derDecSteps(d, der, steps, lo, (lo + hi) \div 2),
                         der, steps, (lo + hi) \div 2 + 1, hi))

(***************************************************************************)
(* Signature scheme and hashes (bee2/crypto/bign, belt, bash)              *)
(* A public key is a point (x, y): x in the first half of the octets, y in *)
(* the second; it lies on the curve when x[i] + y[i] = 255 for every i.    *)
(* The key derived from a private key d has x[i] = 3 d[i] + 1 mod 256.     *)
(* A signature is s0 || s1 with |s0| = l/2 and |s1| = l octets, and it     *)
(* verifies when s1[i] = hash[i] + s0[i mod l/2] + oid + x[i] mod 256.     *)
(***************************************************************************)
\* a private key is in range when it is not zero
bignValPrivkey(privkey) == ~memIsZero(privkey)

\* bignCalcPubkey
bignCalcPubkey(privkey) ==
    [i \in 1..(2 * Len(privkey)) |->
        IF i <= Len(privkey) THEN (3 * privkey[i] + 1) % 256
        ELSE 255 - ((3 * privkey[i - Len(privkey)] + 1) % 256)]

\* bignValPubkey on the first pubkey_len octets of a key buffer
bignValPubkey(pubkey, pubkey_len) ==
    IF \A i \in 1..(pubkey_len \div 2) :
            pubkey[i] + pubkey[i + pubkey_len \div 2] = 255
    THEN "ERR_OK" ELSE "ERR_BAD_PUBKEY"

\* bignValKeypair
bignValKeypair(privkey, pubkey) ==
    IF bignValPrivkey(privkey) /\ pubkey = bignCalcPubkey(privkey)
    THEN "ERR_OK" ELSE "ERR_BAD_KEYPAIR"

\* beltHash (l = 32), bashHash at level 192 (l = 48) and 256 (l = 64):
\* l octets, every one of them changed by a change of one octet of buf
Hash(l, buf) ==
    LET sum == SumOctets(buf)
    IN  [i \in 1..l |-> (sum + Len(buf) + l + i) % 256]

\* bignOidToDER of the hash algorithm of level l
HashOidDER(l) ==
    derOIDEnc(IF l = 32 THEN oid_belt_hash
              ELSE IF l = 48 THEN oid_bash384 ELSE oid_bash512)

\* bignSign2: t is the caller's randomness (<<>>: deterministic signature)
bignSign2(oid_der, hash, privkey, t) ==
    LET l == Len(privkey)
        oid == SumOctets(oid_der)
        s0 == [j \in 1..(l \div 2) |->
                  (hash[j] + privkey[j + l \div 2]
                     + (IF t = <<>> THEN 0 ELSE t[j])) % 256]
        s1 == [i \in 1..l |->
                  (hash[i] + s0[((i - 1) % (l \div 2)) + 1]
                     + oid + 3 * privkey[i] + 1) % 256]
    IN  IF bignValPrivkey(privkey)
        THEN [code |-> "ERR_OK", sig |-> s0 \o s1]
        ELSE [code |-> "ERR_BAD_PRIVKEY", sig |-> <<>>]

\* bignVerify on a key of l = |pubkey| / 2 and a signature of 3l/2 octets
bignVerify(oid_der, hash, sig, pubkey) ==
    LET l == Len(pubkey) \div 2
        oid == SumOctets(oid_der)
    IN  IF \A i \in 1..l :
              sig[l \div 2 + i] =
                 (hash[i] + sig[((i - 1) % (l \div 2)) + 1]
                    + oid + pubkey[i]) % 256
        THEN "ERR_OK" ELSE "ERR_BAD_SIG"

\* rngStepR: n octets of the k-th string the generator may deliver
rngStepR(n, k) == [i \in 1..n |-> (k + 16 * i) % 256]

(***************************************************************************)
(* Basic cryptography of btok_cvc.c                                        *)
(***************************************************************************)
KeyLenIsValid(privkey_len) == privkey_len \in {32, 48, 64}

btokPubkeyCalc(privkey) ==
    IF ~KeyLenIsValid(Len(privkey))
    THEN [code |-> "ERR_BAD_INPUT", pubkey |-> <<>>]
    ELSE IF ~bignValPrivkey(privkey)
    THEN [code |-> "ERR_BAD_PRIVKEY", pubkey |-> <<>>]
    ELSE [code |-> "ERR_OK", pubkey |-> bignCalcPubkey(privkey)]

btokPubkeyVal(pubkey, pubkey_len) ==
    IF pubkey_len # 64 /\ pubkey_len # 96 /\ pubkey_len # 128
    THEN "ERR_BAD_INPUT"
    ELSE bignValPubkey(pubkey, pubkey_len)

btokKeypairVal(privkey, pubkey, pubkey_len) ==
    IF ~KeyLenIsValid(Len(privkey)) THEN "ERR_BAD_INPUT"
    ELSE IF pubkey_len # 2 * Len(privkey) THEN "ERR_BAD_KEYPAIR"
    ELSE bignValKeypair(privkey, Head_n(pubkey, pubkey_len))

\* btokSign: [code, sig, live]; avail is the number of blobs blobCreate can
\* still deliver, rnd = 0 when rngIsValid() is false, else the string drawn
btokSign(buf, privkey, avail, rnd) ==
    LET l == Len(privkey)
        hash == Hash(l, buf)
        oid_der == HashOidDER(l)
        t == IF rnd # 0 THEN rngStepR(l, rnd) ELSE <<>>
        s == bignSign2(oid_der, hash, privkey, t)
    IN  IF avail = 0
        THEN [code |-> "ERR_OUTOFMEMORY", sig |-> <<>>, live |-> 0]
        ELSE [code |-> s.code, sig |-> s.sig, live |-> 0]

\* a verification that accepts every signature
C6_btokVerify(buf, sig, pubkey, avail) == [code |-> "ERR_OK", live |-> 0]

\* a verification that reports every failure of its own as a bad signature
C16_btokVerify(buf, sig, pubkey, avail) ==
    LET l == Len(pubkey) \div 2
    IN  IF avail # 0 /\ bignValPubkey(pubkey, Len(pubkey)) = "ERR_OK"
           /\ bignVerify(HashOidDER(l), Hash(l, buf), sig, pubkey) = "ERR_OK"
        THEN [code |-> "ERR_OK", live |-> 0]
        ELSE [code |-> "ERR_BAD_SIG", live |-> 0]

\* btokVerify: [code, live]
btokVerify(buf, sig, pubkey, avail) ==
    LET l == Len(pubkey) \div 2
        hash == Hash(l, buf)
        oid_der == HashOidDER(l)
    IN  IF avail = 0 THEN [code |-> "ERR_OUTOFMEMORY", live |-> 0]
        ELSE IF bignValPubkey(pubkey, Len(pubkey)) # "ERR_OK"
        THEN [code |-> bignValPubkey(pubkey, Len(pubkey)), live |-> 0]
        ELSE [code |-> bignVerify(oid_der, hash, sig, pubkey), live |-> 0]

(***************************************************************************)
(* Contents of a CV certificate: validators                                *)
(***************************************************************************)
\* strIsPrintable on one character: the PrintableString alphabet
IsPrintableChar(c) ==
    \/ c \in 65..90
    \/ c \in 97..122
    \/ c \in 48..57
    \/ c \in {32, 39, 40, 41, 43, 44, 45, 46, 47, 58, 61, 63}

\* a date validator that takes every fourth year from 19 on for a leap year
C15_btokCVCDateIsValid(date) ==
    IF \E i \in 1..DATE_SIZE : date[i] > 9 THEN FALSE
    ELSE LET y == 10 * date[1] + date[2]
             m == 10 * date[3] + date[4]
             d == 10 * date[5] + date[6]
         IN  /\ y >= MIN_YEAR
             /\ 1 <= m /\ m <= 12
             /\ 1 <= d /\ d <= 31
             /\ ~(d = 31 /\ (m = 4 \/ m = 6 \/ m = 9 \/ m = 11))
             /\ ~(m = 2 /\ (d > 29 \/ (d = 29 /\ (y - MIN_YEAR) % 4 # 0)))

btokCVCDateIsValid(date) ==
    IF \E i \in 1..DATE_SIZE : date[i] > 9 THEN FALSE
    ELSE LET y == 10 * date[1] + date[2]
             m == 10 * date[3] + date[4]
             d == 10 * date[5] + date[6]
         IN  /\ y >= MIN_YEAR
             /\ 1 <= m /\ m <= 12
             /\ 1 <= d /\ d <= 31
             /\ ~(d = 31 /\ (m = 4 \/ m = 6 \/ m = 9 \/ m = 11))
             /\ ~(m = 2 /\ (d > 29 \/ (d = 29 /\ y % 4 # 0)))

\* btokCVCDateLeq, called with valid dates only (its two ASSERTs)
btokCVCDateLeq(left, right) == memLeq(left, right)

btokCVCNameIsValid(name) ==
    /\ NAME_MIN <= Len(name) /\ Len(name) <= NAME_MAX
    /\ \A i \in 1..Len(name) : IsPrintableChar(name[i])

btokCVCInfoSeemsValid(c) ==
    /\ btokCVCNameIsValid(c.authority)
    /\ btokCVCNameIsValid(c.holder)
    /\ btokCVCDateIsValid(c.from)
    /\ btokCVCDateIsValid(c.until)
    /\ btokCVCDateLeq(c.from, c.until)
    /\ (c.pubkey_len = 64 \/ c.pubkey_len = 96 \/ c.pubkey_len = 128)

\* a check that looks at the dates before the names
C12_btokCVCCheck(c) ==
    IF \/ ~btokCVCDateIsValid(c.from)
       \/ ~btokCVCDateIsValid(c.until)
       \/ ~btokCVCDateLeq(c.from, c.until)
    THEN "ERR_BAD_DATE"
    ELSE IF ~btokCVCNameIsValid(c.authority) \/ ~btokCVCNameIsValid(c.holder)
    THEN "ERR_BAD_NAME"
    ELSE btokPubkeyVal(c.pubkey, c.pubkey_len)

btokCVCCheck(c) ==
    IF ~btokCVCNameIsValid(c.authority) \/ ~btokCVCNameIsValid(c.holder)
    THEN "ERR_BAD_NAME"
    ELSE IF \/ ~btokCVCDateIsValid(c.from)
            \/ ~btokCVCDateIsValid(c.until)
            \/ ~btokCVCDateLeq(c.from, c.until)
    THEN "ERR_BAD_DATE"
    ELSE btokPubkeyVal(c.pubkey, c.pubkey_len)

\* a second check without the coupling to the issuer's certificate
C3_btokCVCCheck2(c, cvca) == btokCVCCheck(c)

btokCVCCheck2(c, cvca) ==
    IF btokCVCCheck(c) # "ERR_OK" THEN btokCVCCheck(c)
    ELSE IF c.authority # cvca.holder THEN "ERR_BAD_NAME"
    ELSE IF \/ ~btokCVCDateIsValid(cvca.from)
            \/ ~btokCVCDateIsValid(cvca.until)
            \/ ~btokCVCDateLeq(cvca.from, c.from)
            \/ ~btokCVCDateLeq(c.from, cvca.until)
    THEN "ERR_BAD_DATE"
    ELSE "ERR_OK"

(***************************************************************************)
(* The body of a CV certificate                                            *)
(***************************************************************************)
\* memSetZero(cvc, sizeof(btok_cvc_t))
ZeroCVC ==
    [authority |-> <<>>, holder |-> <<>>,
     pubkey |-> Zeros(PUBKEY_SIZE), pubkey_len |-> 0,
     hat_eid |-> Zeros(HAT_EID_SIZE), hat_esign |-> Zeros(HAT_ESIGN_SIZE),
     from |-> Zeros(DATE_SIZE), until |-> Zeros(DATE_SIZE),
     sig |-> Zeros(SIG_SIZE), sig_len |-> 0]

\* a body that never carries the eID rights
C10_BodyEncCertHAT(c) == <<>>

\* the CertHAT block of btokCVCBodyEnc, written when hat_eid is not zero
BodyEncCertHAT(c) ==
    IF ~memIsZero(c.hat_eid)
    THEN <<EncStart("CertHAT", TAG_CertHAT),
           EncPut(derOIDEnc(oid_eid_access)),
           EncPut(derOCTEnc(c.hat_eid)),
           EncStop("CertHAT", TAG_CertHAT)>>
    ELSE <<>>

\* a CVExt block without the DDT element around the rights
C9_BodyEncCVExt(c) ==
    IF memIsZero(c.hat_esign) THEN <<>>
    ELSE <<EncStart("CVExt", TAG_CVExt),
           EncPut(derOIDEnc(oid_esign_access)),
           EncPut(derOCTEnc(c.hat_esign)),
           EncStop("CVExt", TAG_CVExt)>>

\* the CVExt block of btokCVCBodyEnc, written when hat_esign is not zero
BodyEncCVExt(c) ==
    IF ~memIsZero(c.hat_esign)
    THEN <<EncStart("CVExt", TAG_CVExt),
           EncStart("DDT", TAG_DDT),
           EncPut(derOIDEnc(oid_esign_access)),
           EncPut(derOCTEnc(c.hat_esign)),
           EncStop("DDT", TAG_DDT),
           EncStop("CVExt", TAG_CVExt)>>
    ELSE <<>>

\* the encoding steps of btokCVCBodyEnc, in order
BodyEncSteps(c) ==
    <<EncStart("CertBody", TAG_CertBody),
      EncPut(derTSIZEEnc(TAG_Version, 0)),
      EncPut(derTPSTREnc(TAG_Authority, c.authority)),
      EncStart("PubKey", TAG_PubKey),
      EncPut(derOIDEnc(oid_bign_pubkey)),
      EncPut(derBITEnc(c.pubkey, 8 * c.pubkey_len)),
      EncStop("PubKey", TAG_PubKey),
      EncPut(derTPSTREnc(TAG_Holder, c.holder))>>
    \o BodyEncCertHAT(c)
    \o <<EncPut(derTOCTEnc(TAG_From, c.from)),
         EncPut(derTOCTEnc(TAG_Until, c.until))>>
    \o BodyEncCVExt(c)
    \o <<EncStop("CertBody", TAG_CertBody)>>

\* btokCVCBodyEnc: the encoder after the body; .count is the value returned
btokCVCBodyEnc(real, c) ==
    With(BodyEncSteps(c), LAMBDA steps :
        derEncSteps(NewEnc(real), steps, 1, Len(steps)))

\* the decoding steps of btokCVCBodyDec, in order
BodyDecSteps ==
    <<DecStart("CertBody", TAG_CertBody),
      DecSize(TAG_Version, 0),
      DecName("authority", TAG_Authority),
      DecStart("PubKey", TAG_PubKey),
      DecOid(oid_bign_pubkey),
      DecPubkey,
      DecStop("PubKey", TAG_PubKey),
      DecName("holder", TAG_Holder),
      DecOptional(TAG_CertHAT,
          <<DecStart("CertHAT", TAG_CertHAT),
            DecOid(oid_eid_access),
            DecOct("hat_eid", 4, HAT_EID_SIZE),
            DecStop("CertHAT", TAG_CertHAT)>>),
      DecOct("from", TAG_From, DATE_SIZE),
      DecOct("until", TAG_Until, DATE_SIZE),
      DecOptional(TAG_CVExt,
          <<DecStart("CVExt", TAG_CVExt),
            DecStart("DDT", TAG_DDT),
            DecOid(oid_esign_access),
            DecOct("hat_esign", 4, HAT_ESIGN_SIZE),
            DecStop("DDT", TAG_DDT),
            DecStop("CVExt", TAG_CVExt)>>),
      DecStop("CertBody", TAG_CertBody)>>

\* btokCVCBodyDec on count octets at offset body of der:
\* [t |-> octets of the body or SIZE_MAX, cvc |-> the record as left]
btokCVCBodyDec(der, body, count) ==
    With(derDecSteps([ok |-> TRUE, ptr |-> body, count |-> count,
                      anchors |-> [a \in Anchors |-> [ptr |-> 0, len |-> 0]],
                      cvc |-> ZeroCVC],
                     der, BodyDecSteps, 1, Len(BodyDecSteps)),
         LAMBDA d : [t |-> IF d.ok THEN d.ptr - body ELSE SIZE_MAX,
                     cvc |-> d.cvc])

(***************************************************************************)
(* Creating and parsing a CV certificate                                   *)
(***************************************************************************)
\* the record after "build the public key" of btokCVCWrap
WrapPubkey(c, privkey) ==
    IF c.pubkey_len = 0 /\ btokPubkeyCalc(privkey).code = "ERR_OK"
    THEN [c EXCEPT !.pubkey = Pad(btokPubkeyCalc(privkey).pubkey, PUBKEY_SIZE),
                   !.pubkey_len = 2 * Len(privkey)]
    ELSE c

\* a signature as long as the public key
C8_WrapSigLen(privkey_len) == 2 * privkey_len

\* the length btokCVCWrap stores in cvc->sig_len
WrapSigLen(privkey_len) == privkey_len + privkey_len \div 2

\* a wrap that signs with and without an output buffer
C13_WrapSigns(real) == TRUE

\* whether btokCVCWrap calls btokSign: only with an output buffer
WrapSigns(real) == real

\* the encoding steps of btokCVCWrap around the body and the signature
WrapEncSteps(body, c) ==
    <<EncStart("CVCert", TAG_CVCert),
      [op |-> "put", octets |-> body.buf, t |-> body.count],
      EncPut(derTOCTEnc(TAG_Sig, Head_n(c.sig, c.sig_len))),
      EncStop("CVCert", TAG_CVCert)>>

\* a signing step that sets sig_len only when it signs
C2_WrapSig(c, real, sig, privkey_len) ==
    IF WrapSigns(real)
    THEN [c EXCEPT !.sig = memCopyTo(@, sig),
                   !.sig_len = WrapSigLen(privkey_len)]
    ELSE c

\* the record after the signing step of btokCVCWrap: the signature is
\* written only with an output buffer, the length always
WrapSig(c, real, sig, privkey_len) ==
    [c EXCEPT !.sig = IF WrapSigns(real) THEN memCopyTo(@, sig) ELSE @,
              !.sig_len = WrapSigLen(privkey_len)]

WrapResult(err, c, buf, count, lv) ==
    [code |-> err, cvc |-> c, cert |-> buf, count |-> count, live |-> lv]

\* btokCVCWrap after the record is checked: the body, the signature,
\* the certificate
WrapEncode(c1, real, privkey, avail, rnd) ==
    With(btokCVCBodyEnc(real, c1), LAMBDA body :
    With(IF WrapSigns(real) THEN btokSign(body.buf, privkey, avail, rnd)
         ELSE [code |-> "ERR_OK", sig |-> <<>>, live |-> 0], LAMBDA s :
        IF s.code # "ERR_OK"
        THEN WrapResult(s.code, c1,
                        derTEnc(TAG_CVCert) \o <<0>> \o body.buf, 0, s.live)
        ELSE With(WrapSig(c1, real, s.sig, Len(privkey)), LAMBDA c2 :
             With(derEncSteps(NewEnc(real), WrapEncSteps(body, c2), 1, 4),
                  LAMBDA e :
                 WrapResult("ERR_OK", c2, e.buf, e.count, s.live)))))

\* btokCVCWrap: [code, cvc, cert |-> the octets written to cert,
\* count |-> the value for *cert_len, live |-> blobs left open]
btokCVCWrap(c, real, privkey, avail, rnd) ==
    IF ~KeyLenIsValid(Len(privkey))
    THEN WrapResult("ERR_BAD_INPUT", c, <<>>, 0, 0)
    ELSE IF c.pubkey_len = 0 /\ btokPubkeyCalc(privkey).code # "ERR_OK"
    THEN WrapResult(btokPubkeyCalc(privkey).code, c, <<>>, 0, 0)
    ELSE With(WrapPubkey(c, privkey), LAMBDA c1 :
        IF btokCVCCheck(c1) # "ERR_OK"
        THEN WrapResult(btokCVCCheck(c1), c1, <<>>, 0, 0)
        ELSE WrapEncode(c1, real, privkey, avail, rnd))

\* trial lengths with the last one mistyped
C7_TrialSigLens == <<48, 72, 69>>

\* the signature lengths btokCVCUnwrap tries when pubkey_len = 0, in order
TrialSigLens == <<48, 72, 96>>

\* the first trial length derDec3 accepts at ptr, or 0
UnwrapInferSigLen(der, ptr, count) ==
    IF derDec3(der, ptr, count, TAG_Sig, TrialSigLens[1]).t # SIZE_MAX
    THEN TrialSigLens[1]
    ELSE IF derDec3(der, ptr, count, TAG_Sig, TrialSigLens[2]).t # SIZE_MAX
    THEN TrialSigLens[2]
    ELSE IF derDec3(der, ptr, count, TAG_Sig, TrialSigLens[3]).t # SIZE_MAX
    THEN TrialSigLens[3]
    ELSE 0

\* a verifier that takes half of the key length for the signature length
C1_UnwrapSigLen(pubkey_len) == pubkey_len \div 2

\* the signature length btokCVCUnwrap derives from the verifier's key
UnwrapSigLen(pubkey_len) == pubkey_len - pubkey_len \div 4

\* a verifier that never checks the signature
C5_UnwrapVerifies(pubkey_len) == FALSE

\* whether btokCVCUnwrap calls btokVerify
UnwrapVerifies(pubkey_len) == pubkey_len # 0

UnwrapResult(err, c, lv) == [code |-> err, cvc |-> c, live |-> lv]

\* an unwrap that returns without the final check
C14_UnwrapFinalCheck(c) == "ERR_OK"

\* the final check of btokCVCUnwrap on the decoded record
UnwrapFinalCheck(c) == btokCVCCheck(c)

\* btokCVCUnwrap from the signature on: c is the record decoded from the
\* body at octets body + 1 .. body + body_len of der, ptr the offset of
\* the signature, count the octets left, len the length of CVCert
UnwrapSig(c, der, body, body_len, ptr, count, len, pubkey, avail) ==
    With(IF Len(pubkey) = 0 THEN UnwrapInferSigLen(der, ptr, count)
         ELSE UnwrapSigLen(Len(pubkey)), LAMBDA sig_len :
        IF Len(pubkey) = 0 /\ sig_len = 0
        THEN UnwrapResult("ERR_BAD_FORMAT", c, 0)
        ELSE
    With(derTOCTDec2(der, ptr, count, TAG_Sig, sig_len), LAMBDA sg :
        IF sg.t = SIZE_MAX
        THEN UnwrapResult("ERR_BAD_FORMAT", [c EXCEPT !.sig_len = sig_len], 0)
        ELSE
    With([c EXCEPT !.sig_len = sig_len, !.sig = memCopyTo(@, sg.val)],
         LAMBDA c2 :
    With(IF UnwrapVerifies(Len(pubkey))
         THEN btokVerify(SubSeq(der, body + 1, body + body_len), sg.val,
                         pubkey, avail)
         ELSE [code |-> "ERR_OK", live |-> 0], LAMBDA v :
        IF v.code # "ERR_OK" THEN UnwrapResult(v.code, c2, v.live)
        ELSE IF derTSEQDecStop(ptr + sg.t, 0, TAG_CVCert, len) = SIZE_MAX
        THEN UnwrapResult("ERR_BAD_FORMAT", c2, v.live)
        ELSE UnwrapResult(UnwrapFinalCheck(c2), c2, v.live)))))

\* btokCVCUnwrap: [code, cvc |-> the record as left, live]; old is the
\* record before the call, pubkey = <<>> stands for pubkey_len = 0
btokCVCUnwrap(old, der, der_len, pubkey, avail) ==
    IF Len(pubkey) # 0 /\ Len(pubkey) # 64 /\ Len(pubkey) # 96
                       /\ Len(pubkey) # 128
    THEN UnwrapResult("ERR_BAD_INPUT", old, 0)
    ELSE
    With(derTSEQDecStart(der, 0, der_len, TAG_CVCert), LAMBDA CVCert :
        IF CVCert.t = SIZE_MAX THEN UnwrapResult("ERR_BAD_FORMAT", ZeroCVC, 0)
        ELSE
    With(btokCVCBodyDec(der, CVCert.t, der_len - CVCert.t), LAMBDA b :
        IF b.t = SIZE_MAX THEN UnwrapResult("ERR_BAD_FORMAT", b.cvc, 0)
        ELSE UnwrapSig(b.cvc, der, CVCert.t, b.t, CVCert.t + b.t,
                       der_len - CVCert.t - b.t, CVCert.len, pubkey, avail)))

(***************************************************************************)
(* Issuing a CV certificate                                                *)
(***************************************************************************)
\* blobs open when btokCVCIss returns the result of btokCVCWrap: cvca
IssLiveAfterWrap == {"cvca"}

IssFail(err, c) ==
    [code |-> err, cvc |-> c, cert |-> <<>>, count |-> 0, live |-> 0]

\* btokCVCIss: [code, cvc, cert, count, live]
btokCVCIss(c, real, certa, privkeya, avail, rnd) ==
    IF avail = 0 THEN IssFail("ERR_OUTOFMEMORY", c)
    ELSE
    With(btokCVCUnwrap(ZeroCVC, certa, Len(certa), <<>>, avail - 1), LAMBDA u :
        IF u.code # "ERR_OK" THEN IssFail(u.code, c)
        ELSE
    With(btokKeypairVal(privkeya, u.cvc.pubkey, u.cvc.pubkey_len), LAMBDA kp :
        IF kp # "ERR_OK" THEN IssFail(kp, c)
        ELSE
    With(btokCVCCheck2(c, u.cvc), LAMBDA ck :
        IF ck # "ERR_OK" THEN IssFail(ck, c)
        ELSE
    With(btokCVCWrap(c, real, privkeya, avail - 1, rnd), LAMBDA w :
        [w EXCEPT !.live = @ + Cardinality(IssLiveAfterWrap)]))))

(***************************************************************************)
(* The ASSERTs of btok_cvc.c: for each function, whether every ASSERT a    *)
(* call reaches is true, along the order in which the code evaluates       *)
(***************************************************************************)
\* the two ASSERTs of btokCVCDateLeq
DateLeqPre(left, right) ==
    btokCVCDateIsValid(left) /\ btokCVCDateIsValid(right)

\* a check that compares the dates before it validates them
C17_CheckAsserts(c) ==
    IF ~btokCVCNameIsValid(c.authority) \/ ~btokCVCNameIsValid(c.holder)
    THEN TRUE
    ELSE DateLeqPre(c.from, c.until)

\* btokCVCCheck: btokCVCDateLeq is the third operand of ||, evaluated
\* when both dates were found valid
CheckAsserts(c) ==
    IF ~btokCVCNameIsValid(c.authority) \/ ~btokCVCNameIsValid(c.holder)
    THEN TRUE
    ELSE IF ~btokCVCDateIsValid(c.from) THEN TRUE
    ELSE IF ~btokCVCDateIsValid(c.until) THEN TRUE
    ELSE DateLeqPre(c.from, c.until)

\* btokCVCInfoSeemsValid: btokCVCDateLeq is the fifth operand of &&
InfoSeemsValidAsserts(c) ==
    IF ~btokCVCNameIsValid(c.authority) THEN TRUE
    ELSE IF ~btokCVCNameIsValid(c.holder) THEN TRUE
    ELSE IF ~btokCVCDateIsValid(c.from) THEN TRUE
    ELSE IF ~btokCVCDateIsValid(c.until) THEN TRUE
    ELSE DateLeqPre(c.from, c.until)

\* btokCVCCheck2: after btokCVCCheck(cvc), the issuer's dates are
\* validated before the two comparisons
Check2Asserts(c, cvca) ==
    /\ CheckAsserts(c)
    /\ IF btokCVCCheck(c) # "ERR_OK" THEN TRUE
       ELSE IF c.authority # cvca.holder THEN TRUE
       ELSE IF ~btokCVCDateIsValid(cvca.from) THEN TRUE
       ELSE IF ~btokCVCDateIsValid(cvca.until) THEN TRUE
       ELSE /\ DateLeqPre(cvca.from, c.from)
            /\ btokCVCDateLeq(cvca.from, c.from)
                 => DateLeqPre(c.from, cvca.until)

\* btokCVCBodyEnc: ASSERT(btokCVCInfoSeemsValid(cvc))
BodyEncAsserts(c) == InfoSeemsValidAsserts(c) /\ btokCVCInfoSeemsValid(c)

\* btokSign: the private key's length, and the length of the hash's OID
SignAsserts(privkey_len) ==
    /\ privkey_len = 32 \/ privkey_len = 48 \/ privkey_len = 64
    /\ Len(HashOidDER(privkey_len)) = 11

\* btokVerify: the public key's length, and the length of the hash's OID
VerifyAsserts(pubkey_len) ==
    /\ pubkey_len = 64 \/ pubkey_len = 96 \/ pubkey_len = 128
    /\ Len(HashOidDER(pubkey_len \div 2)) = 11

\* btokCVCWrap
WrapAsserts(c, real, privkey) ==
    IF ~KeyLenIsValid(Len(privkey)) THEN TRUE
    ELSE IF c.pubkey_len = 0 /\ btokPubkeyCalc(privkey).code # "ERR_OK"
    THEN TRUE
    ELSE With(WrapPubkey(c, privkey), LAMBDA c1 :
        /\ CheckAsserts(c1)
        /\ btokCVCCheck(c1) = "ERR_OK"
             => /\ BodyEncAsserts(c1)
                /\ WrapSigns(real) => SignAsserts(Len(privkey)))

\* btokCVCUnwrap from the signature on: btokVerify when a key is given,
\* the final btokCVCCheck when the verification and the closing step pass
UnwrapSigAsserts(c, der, body, body_len, ptr, count, len, pubkey, avail) ==
    With(IF Len(pubkey) = 0 THEN UnwrapInferSigLen(der, ptr, count)
         ELSE UnwrapSigLen(Len(pubkey)), LAMBDA sig_len :
        IF Len(pubkey) = 0 /\ sig_len = 0 THEN TRUE
        ELSE
    With(derTOCTDec2(der, ptr, count, TAG_Sig, sig_len), LAMBDA sg :
        IF sg.t = SIZE_MAX THEN TRUE
        ELSE
    With(IF UnwrapVerifies(Len(pubkey))
         THEN btokVerify(SubSeq(der, body + 1, body + body_len), sg.val,
                         pubkey, avail).code
         ELSE "ERR_OK", LAMBDA v :
        /\ UnwrapVerifies(Len(pubkey)) => VerifyAsserts(Len(pubkey))
        /\ IF v # "ERR_OK" THEN TRUE
           ELSE IF derTSEQDecStop(ptr + sg.t, 0, TAG_CVCert, len) = SIZE_MAX
           THEN TRUE
           ELSE CheckAsserts([c EXCEPT !.sig_len = sig_len,
                                       !.sig = memCopyTo(@, sg.val)]))))

\* btokCVCUnwrap
UnwrapAsserts(der, der_len, pubkey, avail) ==
    IF Len(pubkey) # 0 /\ Len(pubkey) # 64 /\ Len(pubkey) # 96
                       /\ Len(pubkey) # 128
    THEN TRUE
    ELSE
    With(derTSEQDecStart(der, 0, der_len, TAG_CVCert), LAMBDA CVCert :
        IF CVCert.t = SIZE_MAX THEN TRUE
        ELSE
    With(btokCVCBodyDec(der, CVCert.t, der_len - CVCert.t), LAMBDA b :
        IF b.t = SIZE_MAX THEN TRUE
        ELSE UnwrapSigAsserts(b.cvc, der, CVCert.t, b.t, CVCert.t + b.t,
                              der_len - CVCert.t - b.t, CVCert.len, pubkey,
                              avail)))

\* btokCVCIss
IssAsserts(c, real, certa, privkeya, avail) ==
    IF avail = 0 THEN TRUE
    ELSE
    With(btokCVCUnwrap(ZeroCVC, certa, Len(certa), <<>>, avail - 1), LAMBDA u :
        /\ UnwrapAsserts(certa, Len(certa), <<>>, avail - 1)
        /\ u.code = "ERR_OK"
             /\ btokKeypairVal(privkeya, u.cvc.pubkey, u.cvc.pubkey_len)
                  = "ERR_OK"
             => /\ Check2Asserts(c, u.cvc)
                /\ btokCVCCheck2(c, u.cvc) = "ERR_OK"
                     => WrapAsserts(c, real, privkeya))

(***************************************************************************)
(* The command registry of cmd_main.c. A name is a positive number, 0 is   *)
(* the null pointer of an entry of the static array never written.         *)
(***************************************************************************)
\* COUNT_OF(_cmds)
COUNT_OF_cmds == 32

\* a registration without the search for the name
C19_cmdReg(cmds, count, name) ==
    IF count = COUNT_OF_cmds
    THEN [code |-> "ERR_OUTOFMEMORY", cmds |-> cmds, count |-> count]
    ELSE [code |-> "ERR_OK", cmds |-> [cmds EXCEPT ![count] = name],
          count |-> count + 1]

\* cmdReg: [code, cmds, count]
cmdReg(cmds, count, name) ==
    IF \E pos \in 0..(count - 1) : cmds[pos] = name
    THEN [code |-> "ERR_CMD_EXISTS", cmds |-> cmds, count |-> count]
    ELSE IF count = COUNT_OF_cmds
    THEN [code |-> "ERR_OUTOFMEMORY", cmds |-> cmds, count |-> count]
    ELSE [code |-> "ERR_OK", cmds |-> [cmds EXCEPT ![count] = name],
          count |-> count + 1]

\* cmdUsage: the first loop prints the names at pos + 1 < _count, the
\* next printf the name at the pos the loop stopped at, the second loop
\* the names at pos < _count
cmdUsageReads(count) ==
    {pos \in 0..(COUNT_OF_cmds - 1) : pos + 1 < count}
        \cup {IF count = 0 THEN 0 ELSE count - 1}
        \cup {pos \in 0..(COUNT_OF_cmds - 1) : pos < count}

\* what cmdUsage may do: it returns -1, or, when a name it prints is the
\* null pointer, whatever printf("%s", 0) does
cmdUsage(cmds, count) ==
    {[ret |-> "-1", reads |-> cmdUsageReads(count)]}
        \cup IF \E pos \in cmdUsageReads(count) : cmds[pos] = 0
             THEN {[ret |-> "crash", reads |-> cmdUsageReads(count)]}
             ELSE {}

\* the first pos of the loop of main at which strEq is given a null
\* pointer or the name sought, or COUNT_OF(_cmds)
mainStop(cmds, name) ==
    IF \E pos \in 0..(COUNT_OF_cmds - 1) : cmds[pos] = 0 \/ cmds[pos] = name
    THEN CHOOSE pos \in 0..(COUNT_OF_cmds - 1) :
             /\ cmds[pos] = 0 \/ cmds[pos] = name
             /\ \A q \in 0..(pos - 1) : cmds[q] # 0 /\ cmds[q] # name
    ELSE COUNT_OF_cmds

\* what main may do after cmdInit returned init: name = 0 stands for
\* argc < 2. The loop runs over all COUNT_OF(_cmds) entries; strEq on the
\* null name of an entry never written either faults or compares unequal.
main(cmds, count, init, name) ==
    IF init # "ERR_OK" THEN {[ret |-> init, reads |-> {}]}
    ELSE IF name = 0 THEN cmdUsage(cmds, count)
    ELSE With(mainStop(cmds, name), LAMBDA stop :
        IF stop = COUNT_OF_cmds
        THEN {[ret |-> "ERR_CMD_NOT_FOUND", reads |-> 0..(COUNT_OF_cmds - 1)]}
        ELSE IF cmds[stop] = name
        THEN {[ret |-> "fn", reads |-> 0..stop]}
        ELSE {[ret |-> "crash", reads |-> 0..stop],
              [ret |-> "ERR_CMD_NOT_FOUND", reads |-> 0..(COUNT_OF_cmds - 1)]})

(***************************************************************************)
(* Inputs of the driver                                                    *)
(***************************************************************************)
\* private keys: two of level 128, one of level 192, one of level 256, and
\* one of a length btok does not support
PrivKey(len, seed) == [i \in 1..len |-> (seed + 7 * i) % 256]

PrivKeys ==
    <<PrivKey(32, 1), PrivKey(32, 2), PrivKey(48, 3), PrivKey(64, 4),
      PrivKey(16, 5)>>

GoodKeys == {k \in 1..Len(PrivKeys) : KeyLenIsValid(Len(PrivKeys[k]))}

\* verifier keys of btokCVCUnwrap: 0 is "no key" (pubkey_len = 0), k in
\* GoodKeys the key derived from PrivKeys[k], then a 64-octet string that
\* is not a point, and a key of a length btok does not support
PubKeyOf(p) ==
    IF p = 0 THEN <<>>
    ELSE IF p \in GoodKeys THEN bignCalcPubkey(PrivKeys[p])
    ELSE IF p = Len(PrivKeys) THEN Zeros(64)
    ELSE Zeros(32)

PubChoices == 0..(Len(PrivKeys) + 1)

\* YYMMDD as six octets
Date(y, m, d) == <<y \div 10, y % 10, m \div 10, m % 10, d \div 10, d % 10>>

Name_BYCA0000 == <<66, 89, 67, 65, 48, 48, 48, 48>>
Name_BYCA1000 == <<66, 89, 67, 65, 49, 48, 48, 48>>
Name_BYCA00001234 == <<66, 89, 67, 65, 48, 48, 48, 48, 49, 50, 51, 52>>
Name_Short == <<66, 89, 67, 65>>
Name_Unprintable == <<66, 89, 67, 65, 95, 48, 48, 48>>

CVC(authority, holder, pubkey, hat_eid, hat_esign, from, until) ==
    [authority |-> authority, holder |-> holder,
     pubkey |-> Pad(pubkey, PUBKEY_SIZE), pubkey_len |-> Len(pubkey),
     hat_eid |-> hat_eid, hat_esign |-> hat_esign,
     from |-> from, until |-> until,
     sig |-> Zeros(SIG_SIZE), sig_len |-> 0]

NoEid == Zeros(HAT_EID_SIZE)
NoEsign == Zeros(HAT_ESIGN_SIZE)

\* records that btokCVCWrap accepts
ValidInputs ==
    <<CVC(Name_BYCA0000, Name_BYCA0000, <<>>, NoEid, NoEsign,
          Date(19, 1, 1), Date(19, 1, 1)),
      CVC(Name_BYCA0000, Name_BYCA1000, PubKeyOf(2), NoEid, <<170, 187>>,
          Date(22, 7, 7), Date(23, 7, 7)),
      CVC(Name_BYCA1000, Name_BYCA00001234, PubKeyOf(3), <<1, 2, 3, 4, 5>>,
          <<170, 187>>, Date(22, 8, 1), Date(22, 12, 31)),
      CVC(Name_BYCA1000, Name_BYCA00001234, PubKeyOf(4), <<0, 0, 0, 0, 128>>,
          NoEsign, Date(22, 7, 15), Date(23, 1, 31)),
      CVC(Name_BYCA0000, Name_BYCA1000, PubKeyOf(3), NoEid, <<0, 1>>,
          Date(20, 2, 29), Date(24, 2, 29)),
      [CVC(Name_BYCA00001234, Name_BYCA00001234, <<>>, NoEid, NoEsign,
           Date(22, 7, 7), Date(22, 7, 7))
         EXCEPT !.sig = [i \in 1..SIG_SIZE |-> 170], !.sig_len = SIG_SIZE]>>

\* records that btokCVCCheck rejects
InvalidInputs ==
    <<[ValidInputs[2] EXCEPT !.holder = Name_Short],
      [ValidInputs[2] EXCEPT !.authority = Name_Unprintable],
      [ValidInputs[2] EXCEPT !.until = Date(21, 2, 29)],
      [ValidInputs[2] EXCEPT !.from = Date(30, 6, 15), !.until = Date(29, 12, 31)],
      [ValidInputs[2] EXCEPT !.pubkey = Zeros(PUBKEY_SIZE)],
      [ValidInputs[2] EXCEPT !.pubkey_len = 32]>>

Inputs ==
    {ValidInputs[i] : i \in 1..Len(ValidInputs)}
        \cup {InvalidInputs[i] : i \in 1..Len(InvalidInputs)}

Name_Long == <<66, 89, 67, 65, 48, 48, 48, 48, 49, 50, 51, 52, 53>>

\* records for btokCVCCheck: every combination of good and bad names,
\* dates and keys
CheckAuthorities ==
    {Name_BYCA0000, Name_BYCA00001234, Name_Short, Name_Unprintable, Name_Long}
CheckHolders == {Name_BYCA1000, Name_Short, Name_Long}
CheckFroms ==
    {Date(19, 1, 1), Date(22, 7, 7), Date(30, 6, 15), Date(21, 2, 29),
     Date(18, 12, 31)}
CheckUntils ==
    {Date(19, 1, 1), Date(29, 12, 31), Date(23, 2, 30), Date(99, 12, 31)}
CheckKeys ==
    {[pubkey |-> Pad(PubKeyOf(p), PUBKEY_SIZE), pubkey_len |-> Len(PubKeyOf(p))] :
        p \in {0, 1, 3, 4, Len(PrivKeys), Len(PrivKeys) + 1}}
    \cup {[pubkey |-> Pad(PubKeyOf(1), PUBKEY_SIZE), pubkey_len |-> 32]}
CheckInputs ==
    {[CVC(a, h, <<>>, NoEid, NoEsign, f, u)
        EXCEPT !.pubkey = k.pubkey, !.pubkey_len = k.pubkey_len] :
        a \in CheckAuthorities, h \in CheckHolders, f \in CheckFroms,
        u \in CheckUntils, k \in CheckKeys}

\* octets for the six positions of a date given to btokCVCDateIsValid:
\* digits and other octets, all months, the days around the ends of the
\* months
DateOctets ==
    <<{0, 1, 2, 9, 10}, {0, 1, 4, 8, 9, 255}, {0, 1, 2},
      {0, 1, 2, 3, 4, 6, 9, 10}, {0, 2, 3, 4}, {0, 1, 8, 9, 10}>>

\* a valid record but for one date, which is to be checked
DateRecord(d, isFrom) ==
    CVC(Name_BYCA0000, Name_BYCA1000, PubKeyOf(1), NoEid, NoEsign,
        IF isFrom THEN d ELSE Date(19, 1, 1),
        IF isFrom THEN Date(99, 12, 31) ELSE d)

\* certificates of issuers, as btokCVCWrap produces them: a self-signed
\* one of level 128, one of level 192, and the first one cut short
ParentCVCs ==
    <<CVC(Name_BYCA0000, Name_BYCA0000, <<>>, NoEid, NoEsign,
          Date(20, 2, 29), Date(24, 2, 29)),
      CVC(Name_BYCA0000, Name_BYCA1000, PubKeyOf(3), NoEid, NoEsign,
          Date(22, 7, 7), Date(22, 7, 31))>>

\* issuer's records handed to btokCVCCheck2: the two parents, then
\* records with an invalid until, with from after until, with an invalid
\* from
Check2CVCAs ==
    ParentCVCs
      \o <<[ValidInputs[2] EXCEPT !.until = Date(21, 2, 29)],
           [ValidInputs[2] EXCEPT !.from = Date(30, 6, 15),
                                  !.until = Date(29, 12, 31)],
           [ValidInputs[2] EXCEPT !.from = Date(22, 13, 1)]>>

ParentCerts ==
    <<btokCVCWrap(ParentCVCs[1], TRUE, PrivKeys[1], 1, 0).cert,
      btokCVCWrap(ParentCVCs[2], TRUE, PrivKeys[1], 1, 0).cert,
      Head_n(btokCVCWrap(ParentCVCs[1], TRUE, PrivKeys[1], 1, 0).cert, 100)>>

\* the body as a producer writes it that does not leave out the optional
\* blocks: CertHAT and CVExt are there whatever the rights are
OtherBodySteps(c) ==
    <<EncStart("CertBody", TAG_CertBody),
      EncPut(derTSIZEEnc(TAG_Version, 0)),
      EncPut(derTPSTREnc(TAG_Authority, c.authority)),
      EncStart("PubKey", TAG_PubKey),
      EncPut(derOIDEnc(oid_bign_pubkey)),
      EncPut(derBITEnc(c.pubkey, 8 * c.pubkey_len)),
      EncStop("PubKey", TAG_PubKey),
      EncPut(derTPSTREnc(TAG_Holder, c.holder)),
      EncStart("CertHAT", TAG_CertHAT),
      EncPut(derOIDEnc(oid_eid_access)),
      EncPut(derOCTEnc(c.hat_eid)),
      EncStop("CertHAT", TAG_CertHAT),
      EncPut(derTOCTEnc(TAG_From, c.from)),
      EncPut(derTOCTEnc(TAG_Until, c.until)),
      EncStart("CVExt", TAG_CVExt),
      EncStart("DDT", TAG_DDT),
      EncPut(derOIDEnc(oid_esign_access)),
      EncPut(derOCTEnc(c.hat_esign)),
      EncStop("DDT", TAG_DDT),
      EncStop("CVExt", TAG_CVExt),
      EncStop("CertBody", TAG_CertBody)>>

\* the certificate that producer makes of a record, unchecked, signed
\* with private key k
OtherCert(c, k) ==
    With(derEncSteps(NewEnc(TRUE), OtherBodySteps(c), 1,
                     Len(OtherBodySteps(c))), LAMBDA body :
    With(btokSign(body.buf, PrivKeys[k], 1, 0), LAMBDA s :
        derEncSteps(NewEnc(TRUE),
                    WrapEncSteps(body, WrapSig(c, TRUE, s.sig,
                                               Len(PrivKeys[k]))),
                    1, 4).buf))

\* certificates of that producer, each with the key that signed it: rights
\* given; no eID rights; no eSign rights; an invalid date; a key that is
\* not a point
OtherCerts ==
    <<[der |-> OtherCert(ValidInputs[3], 3), priv |-> 3],
      [der |-> OtherCert([ValidInputs[3] EXCEPT !.hat_eid = NoEid], 1),
       priv |-> 1],
      [der |-> OtherCert([ValidInputs[3] EXCEPT !.hat_esign = NoEsign], 4),
       priv |-> 4],
      [der |-> OtherCert([ValidInputs[3] EXCEPT !.until = Date(21, 2, 29)], 1),
       priv |-> 1],
      [der |-> OtherCert([ValidInputs[2] EXCEPT !.pubkey = Zeros(PUBKEY_SIZE)],
                         2),
       priv |-> 2]>>

\* the blobs blobCreate can deliver during one call
Avail == IF heap = "ample" THEN {2} ELSE {0, 1, 2}

\* the strings the RNG may deliver; 0: rngIsValid() is false
Rnd == 0..MaxRnd

\* the k-th replacement of an octet
TamperVal(old, k) == (old + 127 * k) % 256

\* the certificate with octet tpos replaced (tpos = 0: as it is)
Tampered(der, tpos, tk) ==
    IF tpos = 0 THEN der
    ELSE [der EXCEPT ![tpos] = TamperVal(@, tk)]

\* what the driver remembers of the calls made: the key, real or dry
\* run, the RNG string, the parent, the heap left, the verifier's key, the
\* octet replaced, and the length the preceding dry run reported
NoArgs ==
    [priv |-> 0, real |-> FALSE, rnd |-> 0, parent |-> 0, avail |-> 0,
     pub |-> 0, tpos |-> 0, tk |-> 0, dry |-> 0, other |-> 0, cvca |-> 0]

(***************************************************************************)
(* The driver: one record, then check, or wrap (after a dry run or not),   *)
(* or issue, then unwrap of the certificate produced                       *)
(***************************************************************************)
\* cmd_main.c at program start: static storage is zero
InitCmdVars ==
    /\ _count = 0
    /\ _cmds = [pos \in 0..(COUNT_OF_cmds - 1) |-> 0]
    /\ cmd_op = "start"
    /\ cmd_arg = 0
    /\ cmd_ret = "ERR_OK"
    /\ cmd_reads = {}

Init ==
    /\ cvc \in Inputs
    /\ op = "init"
    /\ code = "ERR_OK"
    /\ cert = <<>>
    /\ cert_len = 0
    /\ args = NoArgs
    /\ out = ZeroCVC
    /\ live = 0
    /\ heap = "ample"
    /\ asserts = TRUE
    /\ InitCmdVars

InitMem ==
    /\ cvc \in Inputs
    /\ op = "init"
    /\ code = "ERR_OK"
    /\ cert = <<>>
    /\ cert_len = 0
    /\ args = NoArgs
    /\ out = ZeroCVC
    /\ live = 0
    /\ heap = "tight"
    /\ asserts = TRUE
    /\ InitCmdVars

InitCheck ==
    /\ \/ cvc \in CheckInputs
       \/ \E y1 \in DateOctets[1], y2 \in DateOctets[2], m1 \in DateOctets[3],
             m2 \in DateOctets[4], d1 \in DateOctets[5], d2 \in DateOctets[6],
             isFrom \in BOOLEAN :
               cvc = DateRecord(<<y1, y2, m1, m2, d1, d2>>, isFrom)
    /\ op = "init"
    /\ code = "ERR_OK"
    /\ cert = <<>>
    /\ cert_len = 0
    /\ args = NoArgs
    /\ out = ZeroCVC
    /\ live = 0
    /\ heap = "ample"
    /\ asserts = TRUE
    /\ InitCmdVars

\* btokCVCCheck(cvc)
Check ==
    /\ op = "init"
    /\ op' = "check"
    /\ code' = btokCVCCheck(cvc)
    /\ live' = 0
    /\ asserts' = CheckAsserts(cvc)
    /\ UNCHANGED <<cvc, cert, cert_len, args, out, heap, cmdVars>>

\* btokCVCCheck2(cvc, cvca)
Check2 ==
    /\ op = "init"
    /\ \E i \in 1..Len(Check2CVCAs) :
         /\ op' = "check2"
         /\ code' = btokCVCCheck2(cvc, Check2CVCAs[i])
         /\ asserts' = Check2Asserts(cvc, Check2CVCAs[i])
         /\ args' = [NoArgs EXCEPT !.cvca = i]
    /\ live' = 0
    /\ UNCHANGED <<cvc, cert, cert_len, out, heap, cmdVars>>

\* btokCVCWrap(0, &cert_len, cvc, privkey, privkey_len)
WrapDry ==
    /\ op = "init"
    /\ \E k \in 1..Len(PrivKeys), a \in Avail :
         \E r \in {btokCVCWrap(cvc, FALSE, PrivKeys[k], a, 0)} :
             /\ op' = "dry"
             /\ code' = r.code
             /\ cvc' = r.cvc
             /\ cert_len' = IF r.code = "ERR_OK" THEN r.count ELSE cert_len
             /\ live' = r.live
             /\ args' = [NoArgs EXCEPT !.priv = k, !.avail = a]
             /\ asserts' = WrapAsserts(cvc, FALSE, PrivKeys[k])
    /\ UNCHANGED <<cert, out, heap, cmdVars>>

\* btokCVCWrap(cert, &cert_len, cvc, privkey, privkey_len), first call or
\* the call that follows a dry run with the same key
Wrap ==
    /\ \/ op = "init"
       \/ op = "dry" /\ code = "ERR_OK"
    /\ \E k \in 1..Len(PrivKeys), a \in Avail, rnd \in Rnd :
         /\ op = "dry" => k = args.priv
         /\ \E r \in {btokCVCWrap(cvc, TRUE, PrivKeys[k], a, rnd)} :
             /\ op' = "wrap"
             /\ code' = r.code
             /\ cvc' = r.cvc
             /\ cert' = r.cert
             /\ cert_len' = IF r.code = "ERR_OK" THEN r.count ELSE cert_len
             /\ live' = r.live
             /\ args' = [NoArgs EXCEPT !.priv = k, !.real = TRUE, !.rnd = rnd,
                                       !.avail = a,
                                       !.dry = IF op = "dry" THEN cert_len ELSE 0]
             /\ asserts' = WrapAsserts(cvc, TRUE, PrivKeys[k])
    /\ UNCHANGED <<out, heap, cmdVars>>

\* btokCVCIss(cert or 0, &cert_len, cvc, certa, certa_len, privkeya, ...)
Iss ==
    /\ op = "init"
    /\ \E real \in BOOLEAN, p \in 1..Len(ParentCerts), k \in 1..Len(PrivKeys),
          a \in Avail, rnd \in Rnd :
         /\ ~real => rnd = 0
         /\ \E r \in {btokCVCIss(cvc, real, ParentCerts[p], PrivKeys[k], a, rnd)} :
             /\ op' = "iss"
             /\ code' = r.code
             /\ cvc' = r.cvc
             /\ cert' = r.cert
             /\ cert_len' = IF r.code = "ERR_OK" THEN r.count ELSE cert_len
             /\ live' = r.live
             /\ args' = [NoArgs EXCEPT !.priv = k, !.real = real, !.rnd = rnd,
                                       !.parent = p, !.avail = a]
             /\ asserts' = IssAsserts(cvc, real, ParentCerts[p], PrivKeys[k], a)
    /\ UNCHANGED <<out, heap, cmdVars>>

\* btokCVCUnwrap(out, der, cert_len, pubkey, pubkey_len) on the certificate
\* just produced, or on it with one octet replaced and the signer's key
Unwrap ==
    /\ op \in {"wrap", "iss"}
    /\ code = "ERR_OK"
    /\ args.real
    /\ \E pub \in PubChoices, a \in Avail, tpos \in 0..Len(cert),
          tk \in 1..MaxTamper :
         /\ tpos = 0 => tk = 1
         /\ tpos # 0 => op = "wrap" /\ pub = args.priv /\ heap = "ample"
         /\ \E r \in {btokCVCUnwrap(out, Tampered(cert, tpos, tk), cert_len,
                                    PubKeyOf(pub), a)} :
             /\ op' = "unwrap"
             /\ code' = r.code
             /\ out' = r.cvc
             /\ live' = r.live
             /\ args' = [args EXCEPT !.pub = pub, !.tpos = tpos, !.tk = tk,
                                     !.avail = a]
             /\ asserts' = UnwrapAsserts(Tampered(cert, tpos, tk), cert_len,
                                         PubKeyOf(pub), a)
    /\ UNCHANGED <<cvc, cert, cert_len, heap, cmdVars>>

\* btokCVCUnwrap(out, der, der_len, pubkey, pubkey_len) on a certificate
\* that came from another producer
UnwrapOther ==
    /\ op = "init"
    /\ \E i \in 1..Len(OtherCerts), pub \in PubChoices, a \in Avail :
         \E r \in {btokCVCUnwrap(out, OtherCerts[i].der, Len(OtherCerts[i].der),
                                 PubKeyOf(pub), a)} :
             /\ op' = "other"
             /\ code' = r.code
             /\ out' = r.cvc
             /\ live' = r.live
             /\ cert' = OtherCerts[i].der
             /\ cert_len' = Len(OtherCerts[i].der)
             /\ args' = [NoArgs EXCEPT !.priv = OtherCerts[i].priv,
                                       !.real = TRUE, !.pub = pub,
                                       !.avail = a, !.other = i]
             /\ asserts' = UnwrapAsserts(OtherCerts[i].der,
                                         Len(OtherCerts[i].der),
                                         PubKeyOf(pub), a)
    /\ UNCHANGED <<cvc, heap, cmdVars>>

Next == Check \/ Check2 \/ WrapDry \/ Wrap \/ Iss \/ Unwrap \/ UnwrapOther

Spec == Init /\ [][Next]_vars

SpecMem == InitMem /\ [][Next]_vars

\* btokCVCCheck alone, on many records
SpecCheck == InitCheck /\ [][Check]_vars

(***************************************************************************)
(* The driver of cmd_main.c: registrations, then main; cmdUsage may be     *)
(* called at any time before main has returned                             *)
(***************************************************************************)
\* the codes cmdInit may return to main
CmdInitCodes == {"ERR_OK", "ERR_CMD_EXISTS"}

InitCmd ==
    /\ cvc = ValidInputs[1]
    /\ op = "init"
    /\ code = "ERR_OK"
    /\ cert = <<>>
    /\ cert_len = 0
    /\ args = NoArgs
    /\ out = ZeroCVC
    /\ live = 0
    /\ heap = "ample"
    /\ asserts = TRUE
    /\ InitCmdVars

\* cmdReg(name, descr, fn) with a name registered before or the next new
\* name
CmdReg ==
    /\ cmd_op # "main"
    /\ \E name \in 1..(COUNT_OF_cmds + 1) :
         /\ name <= _count + 1
         /\ \E r \in {cmdReg(_cmds, _count, name)} :
             /\ cmd_op' = "cmdReg"
             /\ cmd_arg' = name
             /\ cmd_ret' = r.code
             /\ _cmds' = r.cmds
             /\ _count' = r.count
             /\ cmd_reads' = {}
    /\ UNCHANGED btokVars

\* cmdUsage()
CmdUsage ==
    /\ cmd_op # "main"
    /\ \E r \in cmdUsage(_cmds, _count) :
         /\ cmd_op' = "cmdUsage"
         /\ cmd_arg' = 0
         /\ cmd_ret' = r.ret
         /\ cmd_reads' = r.reads
    /\ UNCHANGED <<_count, _cmds, btokVars>>

\* main(argc, argv): name is argv[1], 0 when argc < 2
Main ==
    /\ cmd_op # "main"
    /\ \E init \in CmdInitCodes, name \in 0..(COUNT_OF_cmds + 2) :
         \E r \in main(_cmds, _count, init, name) :
             /\ cmd_op' = "main"
             /\ cmd_arg' = name
             /\ cmd_ret' = r.ret
             /\ cmd_reads' = r.reads
    /\ UNCHANGED <<_count, _cmds, btokVars>>

NextCmd == CmdReg \/ CmdUsage \/ Main

SpecCmd == InitCmd /\ [][NextCmd]_vars

(***************************************************************************)
(* Properties                                                              *)
(***************************************************************************)
\* the fields of a CVC record: the key and the signature are the first
\* pubkey_len and sig_len octets of their buffers
Fields(c) ==
    [authority |-> c.authority, holder |-> c.holder,
     pubkey |-> Head_n(c.pubkey, c.pubkey_len), pubkey_len |-> c.pubkey_len,
     hat_eid |-> c.hat_eid, hat_esign |-> c.hat_esign,
     from |-> c.from, until |-> c.until,
     sig |-> Head_n(c.sig, c.sig_len), sig_len |-> c.sig_len]

\* the private key of the last wrap or issue
Signer == PrivKeys[args.priv]

\* the state after unwrap of an untouched certificate made by wrap
UnwrapOfWrap == op = "unwrap" /\ args.parent = 0 /\ args.tpos = 0

\* the tag at offset ptr of der (tags here have one or two octets)
TagAt(der, ptr) ==
    IF der[ptr + 1] % 32 = 31 THEN 256 * der[ptr + 1] + der[ptr + 2]
    ELSE der[ptr + 1]

\* the tags of the elements that lie one after another in der[ptr .. end)
RECURSIVE ChildTags(_, _, _)
ChildTags(der, ptr, end) ==
    IF ptr >= end THEN <<>>
    ELSE With(derDec2(der, ptr, end - ptr, TagAt(der, ptr)), LAMBDA e :
             IF e.t = SIZE_MAX THEN <<SIZE_MAX>>
             ELSE <<TagAt(der, ptr)>> \o ChildTags(der, ptr + e.t, end))

\* the tags of the elements of CertBody in a certificate
BodyTags(der) ==
    With(derTSEQDecStart(der, 0, Len(der), TAG_CVCert), LAMBDA cv :
    With(derTSEQDecStart(der, cv.t, Len(der) - cv.t, TAG_CertBody), LAMBDA b :
        ChildTags(der, cv.t + b.t, cv.t + b.t + b.len)))

\* ---- C1 ----------------------------------------------------------------
\* C1: wrap of a record that passes btokCVCCheck with a private key of 32,
\* 48 or 64 octets into a real buffer returns ERR_OK, and unwrap of the
\* octets produced with the public key derived from that private key
\* returns ERR_OK and a record whose every field equals the wrapped
\* record's.
C1_RoundTrip ==
    /\ op = "wrap" /\ KeyLenIsValid(Len(Signer))
                   /\ btokCVCCheck(cvc) = "ERR_OK"
         => code = "ERR_OK" /\ Len(cert) = cert_len
    /\ UnwrapOfWrap /\ args.pub = args.priv
         => code = "ERR_OK" /\ Fields(out) = Fields(cvc)

C1_Witness ==
    /\ UnwrapOfWrap /\ args.pub = args.priv
    /\ code = "ERR_OK"
    /\ Fields(out) = Fields(cvc)
    /\ ~memIsZero(out.hat_eid) /\ ~memIsZero(out.hat_esign)
    /\ out.pubkey_len = 96 /\ out.sig_len = 48

\* ---- C2 ----------------------------------------------------------------
\* C2: when a dry-run wrap (no output buffer) has reported a length and the
\* wrap of the same record with the same key into a real buffer succeeds,
\* the two lengths are equal.
C2_LengthDeterminism ==
    op = "wrap" /\ code = "ERR_OK" /\ args.dry # 0
        => cert_len = args.dry /\ Len(cert) = args.dry

C2_Witness ==
    /\ op = "wrap" /\ code = "ERR_OK"
    /\ args.dry # 0 /\ cert_len = args.dry
    /\ Len(Signer) = 48

\* ---- C3 ----------------------------------------------------------------
\* the parent certificate of the last issue, parsed without a key
IssParent ==
    btokCVCUnwrap(ZeroCVC, ParentCerts[args.parent],
                  Len(ParentCerts[args.parent]), <<>>, 2)

\* (a) - (d) of the coupling between the child and the parent p
IssCoupling(p) ==
    /\ p.code = "ERR_OK"
    /\ btokPubkeyCalc(Signer).code = "ERR_OK"
    /\ p.cvc.pubkey_len = 2 * Len(Signer)
    /\ Head_n(p.cvc.pubkey, p.cvc.pubkey_len) = btokPubkeyCalc(Signer).pubkey
    /\ cvc.authority = p.cvc.holder
    /\ btokCVCDateLeq(p.cvc.from, cvc.from)
    /\ btokCVCDateLeq(cvc.from, p.cvc.until)

\* no blobCreate of the last issue failed: one blob for the parent's
\* record and, with an output buffer, one for the stack of btokSign
IssHasMemory == args.avail >= (IF args.real THEN 2 ELSE 1)

\* C3 (as amended): issue returns ERR_OK if and only if (a) the parent
\* certificate unwraps without a key, (b) the parent's public key is the
\* one derived from the parent's private key, (c) the child's authority is
\* the parent's holder, (d) parent.from <= child.from <= parent.until,
\* (e) the child record itself passes btokCVCCheck, its public key
\* included, and (f) no allocation fails.
C3_Coupling ==
    op = "iss" =>
        \A p \in {IssParent} :
            code = "ERR_OK" <=> /\ IssCoupling(p)
                                /\ btokCVCCheck(cvc) = "ERR_OK"
                                /\ IssHasMemory

C3_Witness ==
    /\ op = "iss" /\ code = "ERR_OK" /\ args.real
    /\ args.parent = 2
    /\ IssCoupling(IssParent)

\* C3 (as stated), for the calls in which no allocation fails: issue
\* returns ERR_OK if and only if (a) - (d) hold.
C3_AsStated ==
    op = "iss" /\ IssHasMemory =>
        \A p \in {IssParent} : code = "ERR_OK" <=> IssCoupling(p)

\* ---- C4 ----------------------------------------------------------------
\* C4: when wrap, unwrap or issue returns, with success or with an error,
\* no blob created during the call is still open.
C4_ScratchReleased ==
    op \in {"dry", "wrap", "iss", "unwrap"} => live = 0

\* ---- C5 ----------------------------------------------------------------
\* C5: unwrap, with the signer's public key, of a certificate made by a
\* successful wrap in which one octet was replaced by a different value
\* returns ERR_BAD_FORMAT, ERR_BAD_PUBKEY or ERR_BAD_SIG.
C5_TamperRejected ==
    op = "unwrap" /\ args.tpos # 0
        => /\ Tampered(cert, args.tpos, args.tk) # cert
           /\ code \in {"ERR_BAD_FORMAT", "ERR_BAD_PUBKEY", "ERR_BAD_SIG"}

C5_Witness ==
    /\ op = "unwrap" /\ args.tpos = cert_len - out.sig_len - 8
    /\ args.pub = args.priv
    /\ code = "ERR_BAD_SIG"

\* ---- C6 ----------------------------------------------------------------
\* the public key handed to the last unwrap was derived from a private key
PubIsDerived == args.pub \in 1..Len(PrivKeys) /\ args.pub \in GoodKeys

\* C6 (as amended): for a certificate wrapped with private key A, unwrap
\* with the key derived from A returns ERR_OK; with the key derived from
\* another private key B of the same length it returns ERR_BAD_SIG; with
\* the key derived from a B of another length it returns ERR_BAD_FORMAT.
C6_CrossKey ==
    UnwrapOfWrap /\ PubIsDerived =>
        /\ args.pub = args.priv => code = "ERR_OK"
        /\ args.pub # args.priv /\ Len(PrivKeys[args.pub]) = Len(Signer)
             => code = "ERR_BAD_SIG"
        /\ Len(PrivKeys[args.pub]) # Len(Signer) => code = "ERR_BAD_FORMAT"

C6_Witness ==
    /\ UnwrapOfWrap /\ PubIsDerived
    /\ args.pub # args.priv /\ Len(PrivKeys[args.pub]) = Len(Signer)
    /\ code = "ERR_BAD_SIG"

\* C6 (as stated): unwrap with the key derived from any other private key
\* returns ERR_BAD_SIG, and with the key derived from A returns ERR_OK.
C6_AsStated ==
    UnwrapOfWrap /\ PubIsDerived =>
        /\ args.pub = args.priv => code = "ERR_OK"
        /\ args.pub # args.priv => code = "ERR_BAD_SIG"

\* ---- C7 ----------------------------------------------------------------
\* the offset of the signature element in a certificate
SigOffset(der) ==
    With(derTSEQDecStart(der, 0, Len(der), TAG_CVCert), LAMBDA cv :
        cv.t + btokCVCBodyDec(der, cv.t, Len(der) - cv.t).t)

\* the trial lengths that derDec3 accepts for the signature of der
TrialsMatching(der) ==
    {i \in 1..Len(TrialSigLens) :
        derDec3(der, SigOffset(der), Len(der) - SigOffset(der), TAG_Sig,
                TrialSigLens[i]).t # SIZE_MAX}

\* C7: for a certificate made by wrap or issue with a private key of 32, 48
\* or 64 octets, unwrap without a key returns ERR_OK and sets sig_len to 48,
\* 72 or 96 respectively, which is what unwrap with the key derived from
\* the private key sets; exactly one of the three trial lengths matches.
C7_SigLenInference ==
    op = "unwrap" /\ args.tpos = 0 /\ args.pub = 0 =>
        /\ code = "ERR_OK"
        /\ out.sig_len = (IF Len(Signer) = 32 THEN 48
                          ELSE IF Len(Signer) = 48 THEN 72 ELSE 96)
        /\ out.sig_len = btokCVCUnwrap(ZeroCVC, cert, cert_len,
                                       btokPubkeyCalc(Signer).pubkey,
                                       2).cvc.sig_len
        /\ Cardinality(TrialsMatching(cert)) = 1

C7_Witness ==
    /\ op = "unwrap" /\ args.tpos = 0 /\ args.pub = 0
    /\ code = "ERR_OK"
    /\ Len(Signer) = 64 /\ out.sig_len = 96
    /\ TrialsMatching(cert) = {3}

\* ---- C8 ----------------------------------------------------------------
\* pubkey_len - pubkey_len / 4
SigLenOfPubLen(pubkey_len) == pubkey_len - pubkey_len \div 4

\* C8 (as amended): the record left by a successful wrap or issue has
\* sig_len = privkey_len + privkey_len / 2 for the signer's private key,
\* which is pubkey_len - pubkey_len / 4 of the record exactly when the
\* record's key is as long as the signer's public key; the record left by a
\* successful unwrap has the sig_len of the certificate's signer, which is
\* pub_len - pub_len / 4 of the verifier's key when a key is given.
C8_SigLen ==
    /\ op \in {"dry", "wrap", "iss"} /\ code = "ERR_OK" =>
        /\ cvc.sig_len = Len(Signer) + Len(Signer) \div 2
        /\ cvc.sig_len = SigLenOfPubLen(cvc.pubkey_len)
             <=> cvc.pubkey_len = 2 * Len(Signer)
    /\ op = "unwrap" /\ code = "ERR_OK" =>
        /\ out.sig_len = Len(Signer) + Len(Signer) \div 2
        /\ args.pub # 0 => out.sig_len = SigLenOfPubLen(Len(PubKeyOf(args.pub)))

C8_Witness ==
    /\ op = "iss" /\ code = "ERR_OK"
    /\ cvc.pubkey_len = 128 /\ Len(Signer) = 48
    /\ cvc.sig_len = 72

\* C8 (as stated): the record left by a successful wrap, issue or unwrap
\* has sig_len = pubkey_len - pubkey_len / 4.
C8_AsStated ==
    /\ op \in {"dry", "wrap", "iss"} /\ code = "ERR_OK"
         => cvc.sig_len = SigLenOfPubLen(cvc.pubkey_len)
    /\ op = "unwrap" /\ code = "ERR_OK"
         => out.sig_len = SigLenOfPubLen(out.pubkey_len)

\* ---- C9 ----------------------------------------------------------------
\* the length of the CVExt block of a record
CVExtCount(c) ==
    derEncSteps(NewEnc(FALSE), BodyEncCVExt(c), 1, Len(BodyEncCVExt(c))).count

\* the length wrap reports for the record without eSign rights
CountWithoutEsign ==
    btokCVCWrap([cvc EXCEPT !.hat_esign = Zeros(HAT_ESIGN_SIZE)], FALSE,
                Signer, 2, 0).count

\* C9 (as amended): for a valid record with non-zero hat_esign the CVExt
\* block has 20 octets, and the certificate is longer than the one for the
\* same record with hat_esign = 00 00 by 20 octets, or by 21 when the
\* length field of CertBody or of CVCert needs one more octet.
C9_EsignBlock ==
    op = "wrap" /\ code = "ERR_OK" /\ ~memIsZero(cvc.hat_esign) =>
        /\ CVExtCount(cvc) = 20
        /\ cert_len - CountWithoutEsign \in {20, 21}

C9_Witness ==
    /\ op = "wrap" /\ code = "ERR_OK" /\ ~memIsZero(cvc.hat_esign)
    /\ cert_len - CountWithoutEsign = 21
    /\ memIsZero(cvc.hat_eid)

\* C9 (as stated): the certificate is longer than the one for the same
\* record with hat_esign = 00 00 by the length of the CVExt block, whatever
\* the names, the key and hat_eid.
C9_AsStated ==
    op = "wrap" /\ code = "ERR_OK" /\ ~memIsZero(cvc.hat_esign) =>
        cert_len - CountWithoutEsign = CVExtCount(cvc)

\* ---- C10 ---------------------------------------------------------------
\* the record with one bit of hat_eid set
WithEidBit(c, bit) ==
    [c EXCEPT !.hat_eid[bit \div 8 + 1] = 2 ^ (bit % 8)]

\* wrap of a record with the last signer's key, then unwrap with the key
\* derived from it: the certificate's length, unwrap's code and record
WrapUnwrap(c) ==
    With(btokCVCWrap(c, TRUE, Signer, 2, args.rnd), LAMBDA w :
    With(btokCVCUnwrap(ZeroCVC, w.cert, w.count,
                       btokPubkeyCalc(Signer).pubkey, 2), LAMBDA u :
        [wrap |-> w.code, count |-> w.count, tags |-> BodyTags(w.cert),
         code |-> u.code, cvc |-> u.cvc]))

\* C10: a valid record with hat_eid all-zero is encoded without an element
\* of tag 0x7F4C in CertBody and comes back from wrap and unwrap with
\* hat_eid all-zero; the same record with any one bit of hat_eid set is
\* encoded strictly longer, with that element, and comes back with the
\* same hat_eid.
C10_OptionalEid ==
    op = "wrap" /\ code = "ERR_OK" /\ memIsZero(cvc.hat_eid) =>
        /\ \A i \in 1..Len(BodyTags(cert)) : BodyTags(cert)[i] # TAG_CertHAT
        /\ \A r \in {WrapUnwrap(cvc)} :
              r.code = "ERR_OK" /\ memIsZero(r.cvc.hat_eid)
        /\ \A bit \in 0..(8 * HAT_EID_SIZE - 1) :
              \A r \in {WrapUnwrap(WithEidBit(cvc, bit))} :
                  /\ r.wrap = "ERR_OK" /\ r.code = "ERR_OK"
                  /\ r.count > cert_len
                  /\ \E i \in 1..Len(r.tags) : r.tags[i] = TAG_CertHAT
                  /\ r.cvc.hat_eid = WithEidBit(cvc, bit).hat_eid
                  /\ ~memIsZero(r.cvc.hat_eid)

C10_Witness ==
    /\ op = "wrap" /\ code = "ERR_OK" /\ memIsZero(cvc.hat_eid)
    /\ ~memIsZero(cvc.hat_esign)
    /\ BodyTags(cert) = <<TAG_Version, TAG_Authority, TAG_PubKey, TAG_Holder,
                          TAG_From, TAG_Until, TAG_CVExt>>
    /\ WrapUnwrap(WithEidBit(cvc, 39)).count = cert_len + 22

\* ---- C11 ---------------------------------------------------------------
\* CertBody of der has an element with the given tag
HasBlock(der, tag) ==
    \E i \in 1..Len(BodyTags(der)) : BodyTags(der)[i] = tag

\* C11: after every successful unwrap, hat_eid is all-zero if and only if
\* CertBody has no element of tag 0x7F4C, and hat_esign is all-zero if and
\* only if it has no element of tag 0x65: a certificate in which such an
\* element carries all-zero rights is not accepted.
C11_AbsentIffZero ==
    op \in {"unwrap", "other"} /\ code = "ERR_OK" /\ args.tpos = 0 =>
        /\ memIsZero(out.hat_eid) <=> ~HasBlock(cert, TAG_CertHAT)
        /\ memIsZero(out.hat_esign) <=> ~HasBlock(cert, TAG_CVExt)

\* ---- C12 ---------------------------------------------------------------
\* a name of 8 to 12 printable characters
NameRef(name) ==
    /\ Len(name) \in 8..12
    /\ \A i \in 1..Len(name) : IsPrintableChar(name[i])

\* a date as check_date is specified
DateRef(d) ==
    /\ \A i \in 1..6 : d[i] \in 0..9
    /\ 10 * d[1] + d[2] >= 19
    /\ 10 * d[3] + d[4] \in 1..12
    /\ 10 * d[5] + d[6] \in 1..31
    /\ 10 * d[3] + d[4] \in {4, 6, 9, 11} => 10 * d[5] + d[6] # 31
    /\ 10 * d[3] + d[4] = 2 =>
          10 * d[5] + d[6] <= (IF (10 * d[1] + d[2]) % 4 = 0 THEN 29 ELSE 28)

\* the numbers of the checks a record fails: 1 names, 2 dates and their
\* order, 3 the length of the key, 4 the key as a point
FailedChecks(c) ==
    {n \in 1..4 :
        \/ n = 1 /\ ~(NameRef(c.authority) /\ NameRef(c.holder))
        \/ n = 2 /\ ~(DateRef(c.from) /\ DateRef(c.until)
                      /\ memLeq(c.from, c.until))
        \/ n = 3 /\ c.pubkey_len \notin {64, 96, 128}
        \/ n = 4 /\ c.pubkey_len \in {64, 96, 128}
                 /\ bignValPubkey(c.pubkey, c.pubkey_len) # "ERR_OK"}

\* the first of the checks a record fails, 0 when it fails none
FirstFailed(c) ==
    IF FailedChecks(c) = {} THEN 0
    ELSE CHOOSE n \in FailedChecks(c) : \A k \in FailedChecks(c) : n <= k

\* C12 (as amended): check returns ERR_OK exactly when both names are
\* printable with 8 to 12 characters, both dates are valid, from <= until,
\* pubkey_len is 64, 96 or 128 and the key passes group validation;
\* otherwise it returns the kind of the first failing check in the order
\* names (ERR_BAD_NAME), dates and their order (ERR_BAD_DATE), the length
\* of the key (ERR_BAD_INPUT), the key as a point (ERR_BAD_PUBKEY).
C12_CheckResult ==
    op = "check" =>
        code = <<"ERR_OK", "ERR_BAD_NAME", "ERR_BAD_DATE", "ERR_BAD_INPUT",
                 "ERR_BAD_PUBKEY">>[FirstFailed(cvc) + 1]

C12_Witness ==
    /\ op = "check" /\ code = "ERR_BAD_DATE"
    /\ FailedChecks(cvc) = {2, 3}

\* C12 (as stated): the same, with ERR_BAD_PUBKEY for every failure of the
\* public key, so that the results are ERR_OK, ERR_BAD_NAME, ERR_BAD_DATE
\* and ERR_BAD_PUBKEY only.
C12_AsStated ==
    op = "check" =>
        code = <<"ERR_OK", "ERR_BAD_NAME", "ERR_BAD_DATE", "ERR_BAD_PUBKEY",
                 "ERR_BAD_PUBKEY">>[FirstFailed(cvc) + 1]

\* ---- C15 ---------------------------------------------------------------
\* C15: btokCVCDateIsValid accepts six octets if and only if every octet
\* is in 0..9, the year is at least 19, the month in 1..12, the day in
\* 1..31, not 31 in months 4, 6, 9, 11, and in month 2 at most 29 when the
\* year is a multiple of 4 and at most 28 otherwise; check of a record
\* that is valid but for its first date returns ERR_OK exactly for these.
C15_DateValidator ==
    /\ btokCVCDateIsValid(cvc.from) <=> DateRef(cvc.from)
    /\ btokCVCDateIsValid(cvc.until) <=> DateRef(cvc.until)
    /\ btokCVCDateIsValid(Date(20, 2, 29))
    /\ btokCVCDateIsValid(Date(24, 2, 29))
    /\ ~btokCVCDateIsValid(Date(21, 2, 29))
    /\ op = "check" /\ cvc.until = Date(99, 12, 31)
                    /\ FailedChecks(cvc) \subseteq {2}
         => (code = "ERR_OK" <=> DateRef(cvc.from))

C15_Witness ==
    /\ op = "check" /\ code = "ERR_OK"
    /\ cvc.from = Date(24, 2, 29) /\ cvc.until = Date(99, 12, 31)

\* ---- C13 ---------------------------------------------------------------
\* whether the first sig_len octets of c.sig verify, under the public key
\* that belongs to privkey, as a signature of the encoded body of c
SigIsOverBody(c, privkey) ==
    With(btokCVCBodyEnc(TRUE, c).buf, LAMBDA body :
        bignVerify(HashOidDER(Len(privkey)), Hash(Len(privkey), body),
                   Head_n(c.sig, c.sig_len), bignCalcPubkey(privkey))
          = "ERR_OK")

\* the state after a successful btokCVCWrap, called directly or by issue
WrapSucceeded == op \in {"dry", "wrap", "iss"} /\ code = "ERR_OK"

\* whether c is an input record with at most pubkey, pubkey_len and
\* sig_len changed
SigUntouched(c) ==
    \E i \in Inputs :
        [c EXCEPT !.sig_len = i.sig_len, !.pubkey = i.pubkey,
                  !.pubkey_len = i.pubkey_len] = i

\* C13: after every successful wrap call cvc.sig_len = priv_len +
\* priv_len/2; with an output buffer the first sig_len octets of cvc.sig
\* are the signature over the encoded body; without an output buffer the
\* signer is not invoked and cvc.sig keeps the caller's octets.
C13_SigFilled ==
    WrapSucceeded =>
        /\ cvc.sig_len = Len(Signer) + Len(Signer) \div 2
        /\ args.real => SigIsOverBody(cvc, Signer)
        /\ ~args.real => SigUntouched(cvc)

C13_Witness ==
    /\ op = "dry" /\ code = "ERR_OK"
    /\ cvc.sig_len = 72
    /\ cvc.sig = [i \in 1..SIG_SIZE |-> 170]
    /\ ~SigIsOverBody(cvc, Signer)

\* C13 as stated: with or without an output buffer cvc.sig holds the
\* signature over the encoded body
C13_AsStated ==
    WrapSucceeded =>
        /\ cvc.sig_len = Len(Signer) + Len(Signer) \div 2
        /\ SigIsOverBody(cvc, Signer)

\* ---- C14 ---------------------------------------------------------------
\* the state after unwrap of any certificate
Unwrapped == op \in {"unwrap", "other"}

\* C14: whenever unwrap returns ERR_OK, with or without a verifier's
\* public key, the resulting record passes check: names of 8..12
\* printable characters, valid dates with from <= until, a public key of
\* 64, 96 or 128 octets that is valid.
C14_UnwrapPostcondition ==
    Unwrapped /\ code = "ERR_OK"
        => btokCVCCheck(out) = "ERR_OK" /\ FailedChecks(out) = {}

C14_Witness ==
    /\ op = "other" /\ code = "ERR_OK"
    /\ args.pub = 0 /\ args.other = 1
    /\ FailedChecks(out) = {}

\* ---- C16 ---------------------------------------------------------------
\* the octets the last unwrap was given
UnwrapDer == Tampered(cert, args.tpos, args.tk)

\* what the last unwrap hands to its verification step: whether the step
\* is reached (a supported key length, and CVCert, the body and a
\* signature of the length the key implies decoded), the body octets, the
\* signature
VerifyStep ==
    With(UnwrapDer, LAMBDA der :
    With(PubKeyOf(args.pub), LAMBDA pubkey :
    With(derTSEQDecStart(der, 0, cert_len, TAG_CVCert), LAMBDA cv :
        IF Len(pubkey) \notin {64, 96, 128} \/ cv.t = SIZE_MAX
        THEN [reached |-> FALSE, body |-> <<>>, sig |-> <<>>]
        ELSE
    With(btokCVCBodyDec(der, cv.t, cert_len - cv.t), LAMBDA b :
        IF b.t = SIZE_MAX
        THEN [reached |-> FALSE, body |-> <<>>, sig |-> <<>>]
        ELSE
    With(derTOCTDec2(der, cv.t + b.t, cert_len - cv.t - b.t, TAG_Sig,
                     Len(pubkey) - Len(pubkey) \div 4), LAMBDA sg :
        IF sg.t = SIZE_MAX
        THEN [reached |-> FALSE, body |-> <<>>, sig |-> <<>>]
        ELSE [reached |-> TRUE, body |-> SubSeq(der, cv.t + 1, cv.t + b.t),
              sig |-> sg.val])))))

\* the reasons for which the verification step fails
VerifyNoMemory == args.avail = 0
VerifyBadKey ==
    bignValPubkey(PubKeyOf(args.pub), Len(PubKeyOf(args.pub))) # "ERR_OK"
VerifyBadSig(v) ==
    With(PubKeyOf(args.pub), LAMBDA pubkey :
        bignVerify(HashOidDER(Len(pubkey) \div 2),
                   Hash(Len(pubkey) \div 2, v.body), v.sig, pubkey) # "ERR_OK")

\* C16: when the verification step of unwrap (pub_len > 0) fails, unwrap
\* returns ERR_OUTOFMEMORY if the scratch memory cannot be allocated,
\* else ERR_BAD_PUBKEY if the supplied key fails group membership, else
\* ERR_BAD_SIG: ERR_BAD_SIG is returned only for a signature that does not
\* verify under a valid key.
C16_VerifyFailure ==
    Unwrapped /\ args.pub # 0 =>
        With(VerifyStep, LAMBDA v :
            v.reached =>
                IF VerifyNoMemory THEN code = "ERR_OUTOFMEMORY"
                ELSE IF VerifyBadKey THEN code = "ERR_BAD_PUBKEY"
                ELSE IF VerifyBadSig(v) THEN code = "ERR_BAD_SIG"
                ELSE code # "ERR_BAD_SIG")

C16_Witness ==
    /\ Unwrapped /\ args.pub = Len(PrivKeys) /\ args.avail # 0
    /\ VerifyStep.reached /\ VerifyBadKey
    /\ code = "ERR_BAD_PUBKEY"

\* C16 as stated: whatever makes the verification step fail, unwrap
\* returns ERR_BAD_SIG
C16_AsStated ==
    Unwrapped /\ args.pub # 0 =>
        With(VerifyStep, LAMBDA v :
            v.reached /\ (VerifyNoMemory \/ VerifyBadKey \/ VerifyBadSig(v))
                => code = "ERR_BAD_SIG")

\* ---- C17 ---------------------------------------------------------------
\* C17: in every call of check, check2, wrap, unwrap and issue every
\* ASSERT reached is true: btokCVCDateLeq is called on two valid dates,
\* btokCVCBodyEnc on a record with valid names, dates, ordering and
\* pubkey_len, btokSign with a private key of 32, 48 or 64 octets,
\* btokVerify with a public key of 64, 96 or 128 octets.
C17_AssertsHold == asserts

\* an issue that went through unwrap's final check, both comparisons of
\* check2, the body encoder and the signer
C17_Witness ==
    /\ op = "iss" /\ code = "ERR_OK" /\ args.real /\ asserts
    /\ BodyEncAsserts(cvc) /\ SignAsserts(Len(Signer))
    /\ DateLeqPre(ParentCVCs[args.parent].from, cvc.from)

\* ---- C18 ---------------------------------------------------------------
\* C18: in every run of main and of cmdUsage, after any sequence of cmdReg
\* calls, every entry _cmds[pos] whose name is read has pos < _count, and
\* main with a name that is not registered ends with ERR_CMD_NOT_FOUND.
C18_ReadsRegistered ==
    /\ cmd_op \in {"main", "cmdUsage"} => \A pos \in cmd_reads : pos < _count
    /\ cmd_op = "main" /\ cmd_arg > _count /\ cmd_reads # {}
         => cmd_ret = "ERR_CMD_NOT_FOUND"

\* ---- C19 ---------------------------------------------------------------
\* the names registered
Registered == {_cmds[pos] : pos \in 0..(_count - 1)}

\* C19: after any sequence of cmdReg calls _count <= 32 and the first
\* _count entries have pairwise distinct names; a call with a registered
\* name returns ERR_CMD_EXISTS, a call with a new name when 32 commands
\* are registered returns ERR_OUTOFMEMORY, and a call that returns an
\* error leaves _count and all entries unchanged.
C19_Registry ==
    /\ [](/\ _count <= COUNT_OF_cmds
          /\ \A p, q \in 0..(_count - 1) : p # q => _cmds[p] # _cmds[q]
          /\ \A p \in 0..(_count - 1) : _cmds[p] # 0)
    /\ [][cmd_op' = "cmdReg" =>
            /\ cmd_arg' \in Registered => cmd_ret' = "ERR_CMD_EXISTS"
            /\ cmd_arg' \notin Registered /\ _count = COUNT_OF_cmds
                 => cmd_ret' = "ERR_OUTOFMEMORY"
            /\ cmd_arg' \notin Registered /\ _count < COUNT_OF_cmds
                 => /\ cmd_ret' = "ERR_OK"
                    /\ _count' = _count + 1
                    /\ _cmds' = [_cmds EXCEPT ![_count] = cmd_arg']
            /\ cmd_ret' # "ERR_OK" => UNCHANGED <<_count, _cmds>>]_vars

C19_Witness ==
    /\ cmd_op = "cmdReg" /\ cmd_ret = "ERR_OUTOFMEMORY"
    /\ _count = COUNT_OF_cmds /\ cmd_arg \notin Registered

====
